---- MODULE Spec2Model ----
(***************************************************************************)
(* Vault <-> store reconciliation of obsidian-task-master.                 *)
(*                                                                         *)
(* The model follows scripts/modules/task-manager/obsidian-sync.js and     *)
(* scripts/modules/task-manager/parse-obsidian-notes.js.  The canonical    *)
(* store is a document of named partitions ("tags"), the vault is a set of *)
(* markdown files.  A markdown file is kept as the sequence of its         *)
(* checkbox lines ("- [ ] title" / "- [x] title"); the other lines of a    *)
(* file are never read by the synchronisation code modelled here.          *)
(*                                                                         *)
(* scripts/modules/utils.js (readJSON, writeJSON) is not part of the       *)
(* sources at hand; the two accessors are modelled from section 4.2 of the *)
(* specification.                                                          *)
(***************************************************************************)
EXTENDS Integers, Sequences, FiniteSets, TLC

(***************************************************************************)
(* Bounds of the model.                                                    *)
(***************************************************************************)
\* wall clock values 1..MaxClock (lastSyncAt stamps, file modification times)
MaxClock == 2
\* hand edits of vault files per behaviour
MaxEdits == 1
\* a pass that can create records starts only if the ids stay within MaxTasks
MaxTasks == 4

Titles == {"A", "B"}
Tags == {"master", "other"}
\* the tag the synchronisation passes are called with
SyncTags == {"master"}

(***************************************************************************)
(* Paths of vault files, relative to the vault root.  NoFile is the empty  *)
(* or absent sourceFile (falsy in the code).                               *)
(***************************************************************************)
NoFile == [dir |-> "", id |-> 0, base |-> ""]

RootFile(base) == [dir |-> "", id |-> 0, base |-> base]

RootFiles == {RootFile("f1"), RootFile("f2")}

\* title.replace(/[^a-zA-Z0-9]/g, '-').toLowerCase()
Slug(title) == IF title = "A" THEN "a" ELSE IF title = "B" THEN "b" ELSE "x"

\* path.join(vaultPath, 'Tasks', `task-${padStart(id)}-${slug}.md`)
TaskFile(id, title) == [dir |-> "Tasks", id |-> id, base |-> Slug(title)]

\* order in which glob.sync('**/*.md') returns the files: alphabetical,
\* f1.md, f2.md, then Tasks/task-NNN-slug.md by number and slug
PathRank(p) == IF p.dir = "" THEN (IF p.base = "f1" THEN 0 ELSE 1)
               ELSE 2 + 2 * p.id + (IF p.base = "a" THEN 0 ELSE 1)

(***************************************************************************)
(* Generic helpers.                                                        *)
(***************************************************************************)
Max(a, b) == IF a >= b THEN a ELSE b

RECURSIVE MaxId(_)
\* Math.max(...tasks.map(t => t.id), 0)
MaxId(tasks) == IF tasks = <<>> THEN 0
                ELSE Max(Head(tasks).id, MaxId(Tail(tasks)))

\* Array.prototype.find as an index: the first of the positions that satisfy
\* the predicate, 0 if there is none
FirstIndex(hits) ==
    IF hits = {} THEN 0 ELSE CHOOSE i \in hits : \A j \in hits : i <= j

VARIABLES
    storeFile,   \* "ok", "missing" or "corrupt": the tasks.json file
    store,       \* tag -> partition of the document in tasks.json
    vault,       \* path -> markdown file, for the files that exist
    now,         \* wall clock
    edits,       \* hand edits made so far
    pc,          \* position of the running pass: idle, to, extract, from, done
    run,         \* the call being executed: function, direction, tag, dryRun
    mem,         \* tasksData.tasks of the running pass
    idx,         \* index of the to-obsidian loop
    vaultTasks,  \* extracted records the from-obsidian loop has not seen yet
    results,     \* syncResults / results of the running pass
    outcome,     \* "none", "returned" or "threw"
    writeCalls,  \* writes of tasks.json made by the running pass
    fileOps,     \* vault files written by the running pass
    readOnly,    \* vault paths whose write fails (EACCES, a directory in the way)
    content,     \* the value a function is tried on or has returned: a text,
                 \* an identifier, a vault folder; for the plugin client, the
                 \* child processes it has spawned
    record,      \* the arguments it is applied with; for the plugin client,
                 \* the fields of the TaskMasterClient object
    applied      \* the functions applied so far; for the plugin client, the
                 \* position of each of its operations

vars == <<storeFile, store, vault, now, edits, pc, run, mem, idx, vaultTasks,
          results, outcome, writeCalls, fileOps, readOnly, content, record, applied>>

\* the value a function is tried on, apart from any store or vault
textVars == <<content, record, applied>>

(***************************************************************************)
(* Records.                                                                *)
(*   canonical task: id, title, status, description, priority, details,    *)
(*                   dependencies, sourceFile, syncStatus, lastSyncAt      *)
(*   lastSyncAt is <<>> when absent and <<t>> when stamped at time t;      *)
(*   time 0 is the epoch, a negative time lies before it.                  *)
(***************************************************************************)
Task(id, title, status, description, priority, details, dependencies, sourceFile, syncStatus, lastSyncAt) ==
    [id |-> id, title |-> title, status |-> status, description |-> description,
     priority |-> priority, details |-> details, dependencies |-> dependencies,
     sourceFile |-> sourceFile, syncStatus |-> syncStatus, lastSyncAt |-> lastSyncAt]

\* a partition of the store document
NoPartition == [kind |-> "absent", tasks |-> <<>>]

TasksPartition(tasks) == [kind |-> "tasks", tasks |-> tasks]

\* the value parseObsidianVault hands to writeJSON: { [tag]: tasksData }
WrappedPartition(tasks) == [kind |-> "wrapped", tasks |-> tasks]

EmptyDocument == [t \in Tags |-> NoPartition]

\* a markdown file: its checkbox lines and its modification time
Line(title, checked) == [title |-> title, checked |-> checked]

File(lines, mtime) == [lines |-> lines, mtime |-> mtime]

ZeroResults == [updated |-> 0, created |-> 0, conflicts |-> 0, errors |-> <<>>]

NoRun == [fn |-> "none", direction |-> "none", tag |-> "master", dryRun |-> FALSE]

(***************************************************************************)
(* Canonical Store Accessor (scripts/modules/utils.js, specification 4.2). *)
(***************************************************************************)
\* tasks.json as a path: when it is in readOnly the file cannot be written
StorePath == [dir |-> ".taskmaster", id |-> 0, base |-> "tasks"]

\* the document a reader sees: nothing when the file is missing or unparsable
Document == IF storeFile = "ok" THEN store ELSE EmptyDocument

\* readJSON(tasksPath, projectRoot, tag): <<tasks>> of the partition, or <<>>
\* (null, or data without a tasks array) when there is none
readJSON(tag) ==
    IF Document[tag].kind = "tasks" THEN <<Document[tag].tasks>> ELSE <<>>

\* writeJSON(tasksPath, data, projectRoot, tag): the document read right before
\* the write, with the target partition replaced
writeJSON(tag, partition) == [Document EXCEPT ![tag] = partition]

(***************************************************************************)
(* Text Projector.                                                         *)
(***************************************************************************)
\* generateMarkdownForTask: the checkbox line of a freshly rendered file
generateMarkdownForTask(task) == <<Line(task.title, task.status = "done")>>

\* updateTaskInMarkdown: rewrite the first checkbox line whose text is the
\* title (the regular expression has no i flag), or append a new line
updateTaskInMarkdown(lines, task) ==
    LET i == FirstIndex({k \in 1..Len(lines) : lines[k].title = task.title})
        new == Line(task.title, task.status = "done")
    IN  IF i # 0 THEN [lines EXCEPT ![i] = new] ELSE Append(lines, new)

\* fs.writeFileSync on a vault file
WriteFile(v, path, lines, t) ==
    [p \in (DOMAIN v) \cup {path} |-> IF p = path THEN File(lines, t) ELSE v[p]]

\* updateMarkdownFile(vaultPath, task)
updateMarkdownFile(v, task, t) ==
    IF task.sourceFile \notin DOMAIN v
    THEN WriteFile(v, task.sourceFile, generateMarkdownForTask(task), t)
    ELSE WriteFile(v, task.sourceFile,
                   updateTaskInMarkdown(v[task.sourceFile].lines, task), t)

(***************************************************************************)
(* Text Record Extractor.                                                  *)
(***************************************************************************)
\* the record extractTasksFromVault builds for one checkbox line
VaultTask(file, line) ==
    [title |-> line.title,
     status |-> IF line.checked THEN "done" ELSE "pending",
     sourceFile |-> file,
     description |-> line.title,
     priority |-> "medium",
     details |-> "",
     dependencies |-> <<>>]

RECURSIVE FileTasks(_, _)
FileTasks(file, lines) ==
    IF lines = <<>> THEN <<>>
    ELSE <<VaultTask(file, Head(lines))>> \o FileTasks(file, Tail(lines))

RECURSIVE ExtractFrom(_, _)
ExtractFrom(v, files) ==
    IF files = {} THEN <<>>
    ELSE LET f == CHOOSE x \in files : \A y \in files : PathRank(x) <= PathRank(y)
         IN  FileTasks(f, v[f].lines) \o ExtractFrom(v, files \ {f})

\* extractTasksFromVault(vaultPath): every checkbox line of every *.md file
extractTasksFromVault(v) == ExtractFrom(v, DOMAIN v)

(***************************************************************************)
(* Conflict detection.                                                     *)
(***************************************************************************)
\* new Date(taskB.lastModified || taskB.lastSyncAt || 0): an extracted record
\* carries neither field, so its modification evidence is the epoch
VaultTaskTime(vaultTask) == 0

\* mutant: a record without lastSyncAt is compared like one stamped long ago
hasConflictUnstamped(taskA, taskB) ==
    /\ \/ taskA.lastSyncAt = <<>>
       \/ VaultTaskTime(taskB) > taskA.lastSyncAt[1]
    /\ \/ taskA.title # taskB.title
       \/ taskA.status # taskB.status
       \/ taskA.description # taskB.description

\* hasConflict(taskA, taskB)
hasConflict(taskA, taskB) ==
    IF taskA.lastSyncAt = <<>> THEN FALSE
    ELSE /\ VaultTaskTime(taskB) > taskA.lastSyncAt[1]
         /\ \/ taskA.title # taskB.title
            \/ taskA.status # taskB.status
            \/ taskA.description # taskB.description

(***************************************************************************)
(* Reconciliation: the steps of one record.                                *)
(***************************************************************************)
\* syncWithObsidian: tasksData.tasks.find(t => t.sourceFile === vaultTask.sourceFile
\*                                         && t.title === vaultTask.title)
FindBySourceAndTitle(tasks, vaultTask) ==
    FirstIndex({i \in 1..Len(tasks) :
                   /\ tasks[i].sourceFile = vaultTask.sourceFile
                   /\ tasks[i].title = vaultTask.title})

\* syncTasksFromObsidian: tasksData.tasks.find(t => t.title === vaultTask.title ||
\*     (t.sourceFile && vaultTask.sourceFile && t.sourceFile === vaultTask.sourceFile))
FindByTitleOrSource(tasks, vaultTask) ==
    FirstIndex({i \in 1..Len(tasks) :
                   \/ tasks[i].title = vaultTask.title
                   \/ /\ tasks[i].sourceFile # NoFile
                      /\ vaultTask.sourceFile # NoFile
                      /\ tasks[i].sourceFile = vaultTask.sourceFile})

\* mutant: the conflicting record also loses its lastSyncAt
MarkConflictUnstamp(task) == [task EXCEPT !.syncStatus = "conflict", !.lastSyncAt = <<>>]

\* existingTask.syncStatus = 'conflict'
MarkConflict(task) == [task EXCEPT !.syncStatus = "conflict"]

\* mutant: the merge stamps the record but leaves its syncStatus
MergeKeepSyncStatus(task, vaultTask, t) ==
    [task EXCEPT !.title = vaultTask.title,
                 !.status = vaultTask.status,
                 !.sourceFile = vaultTask.sourceFile,
                 !.description = vaultTask.description,
                 !.priority = vaultTask.priority,
                 !.details = vaultTask.details,
                 !.dependencies = vaultTask.dependencies,
                 !.lastSyncAt = <<t>>]

\* Object.assign(existingTask, vaultTask, {id: existingTask.id,
\*               syncStatus: 'synced', lastSyncAt: new Date().toISOString()})
MergeVaultTask(task, vaultTask, t) ==
    [task EXCEPT !.title = vaultTask.title,
                 !.status = vaultTask.status,
                 !.sourceFile = vaultTask.sourceFile,
                 !.description = vaultTask.description,
                 !.priority = vaultTask.priority,
                 !.details = vaultTask.details,
                 !.dependencies = vaultTask.dependencies,
                 !.syncStatus = "synced",
                 !.lastSyncAt = <<t>>]

\* {...vaultTask, id: newId, syncStatus: 'synced', lastSyncAt: new Date().toISOString()}
NewTask(vaultTask, newId, t) ==
    Task(newId, vaultTask.title, vaultTask.status, vaultTask.description,
         vaultTask.priority, vaultTask.details, vaultTask.dependencies,
         vaultTask.sourceFile, "synced", <<t>>)

\* mutant: the new id taken from the length of the list
NewIdSyncByLength(tasks) == Len(tasks) + 1

\* syncWithObsidian: Math.max(...tasksData.tasks.map(t => t.id), 0) + 1
NewIdSync(tasks) == MaxId(tasks) + 1

\* syncTasksFromObsidian: tasks.length > 0 ? Math.max(...ids) + 1 : 1
NewIdFrom(tasks) == IF Len(tasks) > 0 THEN MaxId(tasks) + 1 ELSE 1

\* mutant: a matched record is dropped and entered again under a new id
SyncRecordReplace(tasks, res, vaultTask, t) ==
    LET i == FindBySourceAndTitle(tasks, vaultTask)
        rest == SubSeq(tasks, 1, i - 1) \o SubSeq(tasks, i + 1, Len(tasks))
    IN  IF i # 0
        THEN [tasks |-> Append(rest, NewTask(vaultTask, NewIdSync(tasks), t)),
              results |-> [res EXCEPT !.updated = @ + 1]]
        ELSE [tasks |-> Append(tasks, NewTask(vaultTask, NewIdSync(tasks), t)),
              results |-> [res EXCEPT !.created = @ + 1]]

\* the body of the from-obsidian loop of syncWithObsidian for one record
SyncRecord(tasks, res, vaultTask, t) ==
    LET i == FindBySourceAndTitle(tasks, vaultTask)
    IN  IF i # 0
        THEN IF hasConflict(tasks[i], vaultTask)
             THEN [tasks |-> [tasks EXCEPT ![i] = MarkConflict(tasks[i])],
                   results |-> [res EXCEPT !.conflicts = @ + 1]]
             ELSE [tasks |-> [tasks EXCEPT ![i] = MergeVaultTask(tasks[i], vaultTask, t)],
                   results |-> [res EXCEPT !.updated = @ + 1]]
        ELSE [tasks |-> Append(tasks, NewTask(vaultTask, NewIdSync(tasks), t)),
              results |-> [res EXCEPT !.created = @ + 1]]

\* the body of the loop of syncTasksFromObsidian for one record
FromRecord(tasks, res, vaultTask, dryRun, t) ==
    LET i == FindByTitleOrSource(tasks, vaultTask)
    IN  IF i # 0
        THEN IF hasConflict(tasks[i], vaultTask)
             THEN [tasks |-> IF dryRun THEN tasks
                             ELSE [tasks EXCEPT ![i] = MarkConflict(tasks[i])],
                   results |-> [res EXCEPT !.conflicts = @ + 1]]
             ELSE [tasks |-> IF dryRun THEN tasks
                             ELSE [tasks EXCEPT ![i] = MergeVaultTask(tasks[i], vaultTask, t)],
                   results |-> [res EXCEPT !.updated = @ + 1]]
        ELSE [tasks |-> IF dryRun THEN tasks
                        ELSE Append(tasks, NewTask(vaultTask, NewIdFrom(tasks), t)),
              results |-> [res EXCEPT !.created = @ + 1]]

\* syncWithObsidian saves after the from-obsidian loop, whatever it counted
SyncSaves(res) == TRUE

\* syncTasksFromObsidian: !dryRun && (results.created > 0 || results.updated > 0)
FromSaves(res, dryRun) == ~dryRun /\ (res.created > 0 \/ res.updated > 0)

\* the loop of syncTasksFromObsidian over the extracted records
RECURSIVE FromLoop(_, _, _, _, _)
FromLoop(tasks, res, found, dryRun, t) ==
    IF found = <<>> THEN [tasks |-> tasks, results |-> res]
    ELSE LET r == FromRecord(tasks, res, Head(found), dryRun, t)
         IN  FromLoop(r.tasks, r.results, Tail(found), dryRun, t)

\* mutant: the dry-run flag is not looked at, every file is written
RECURSIVE ToObsidianLoopNoDryRun(_, _, _, _, _, _)
ToObsidianLoopNoDryRun(v, tasks, res, dryRun, bad, t) ==
    IF tasks = <<>> THEN [vault |-> v, results |-> res]
    ELSE LET task == Head(tasks)
             markdownPath == TaskFile(task.id, task.title)
             existed == markdownPath \in DOMAIN v
         IN  IF markdownPath \in bad
             THEN ToObsidianLoopNoDryRun(v, Tail(tasks),
                                         [res EXCEPT !.errors = Append(@, task.id)],
                                         dryRun, bad, t)
             ELSE ToObsidianLoopNoDryRun(
                      WriteFile(v, markdownPath, generateMarkdownForTask(task), t),
                      Tail(tasks),
                      IF existed THEN [res EXCEPT !.updated = @ + 1]
                                 ELSE [res EXCEPT !.created = @ + 1],
                      dryRun, bad, t)

\* mutant: a dry run counts what it would create or update
RECURSIVE ToObsidianLoopCounting(_, _, _, _, _, _)
ToObsidianLoopCounting(v, tasks, res, dryRun, bad, t) ==
    IF tasks = <<>> THEN [vault |-> v, results |-> res]
    ELSE LET task == Head(tasks)
             markdownPath == TaskFile(task.id, task.title)
             existed == markdownPath \in DOMAIN v
             counted == IF existed THEN [res EXCEPT !.updated = @ + 1]
                        ELSE [res EXCEPT !.created = @ + 1]
         IN  IF dryRun
             THEN ToObsidianLoopCounting(v, Tail(tasks), counted, dryRun, bad, t)
             ELSE IF markdownPath \in bad
             THEN ToObsidianLoopCounting(v, Tail(tasks),
                                         [res EXCEPT !.errors = Append(@, task.id)],
                                         dryRun, bad, t)
             ELSE ToObsidianLoopCounting(
                      WriteFile(v, markdownPath, generateMarkdownForTask(task), t),
                      Tail(tasks), counted, dryRun, bad, t)

\* mutant: the first file that cannot be written ends the loop
RECURSIVE ToObsidianLoopAbort(_, _, _, _, _, _)
ToObsidianLoopAbort(v, tasks, res, dryRun, bad, t) ==
    IF tasks = <<>> THEN [vault |-> v, results |-> res]
    ELSE LET task == Head(tasks)
             markdownPath == TaskFile(task.id, task.title)
             existed == markdownPath \in DOMAIN v
         IN  IF dryRun
             THEN ToObsidianLoopAbort(v, Tail(tasks), res, dryRun, bad, t)
             ELSE IF markdownPath \in bad
             THEN [vault |-> v, results |-> [res EXCEPT !.errors = Append(@, task.id)]]
             ELSE ToObsidianLoopAbort(
                      WriteFile(v, markdownPath, generateMarkdownForTask(task), t),
                      Tail(tasks),
                      IF existed THEN [res EXCEPT !.updated = @ + 1]
                                 ELSE [res EXCEPT !.created = @ + 1],
                      dryRun, bad, t)

\* the loop of syncTasksToObsidian over the remaining tasks; a write to a path
\* of bad throws, and the catch block pushes {taskId: task.id, error}
RECURSIVE ToObsidianLoop(_, _, _, _, _, _)
ToObsidianLoop(v, tasks, res, dryRun, bad, t) ==
    IF tasks = <<>> THEN [vault |-> v, results |-> res]
    ELSE LET task == Head(tasks)
             markdownPath == TaskFile(task.id, task.title)
             existed == markdownPath \in DOMAIN v
         IN  IF dryRun
             THEN ToObsidianLoop(v, Tail(tasks), res, dryRun, bad, t)
             ELSE IF markdownPath \in bad
             THEN ToObsidianLoop(v, Tail(tasks),
                                 [res EXCEPT !.errors = Append(@, task.id)],
                                 dryRun, bad, t)
             ELSE ToObsidianLoop(
                      WriteFile(v, markdownPath, generateMarkdownForTask(task), t),
                      Tail(tasks),
                      IF existed THEN [res EXCEPT !.updated = @ + 1]
                                 ELSE [res EXCEPT !.created = @ + 1],
                      dryRun, bad, t)

(***************************************************************************)
(* parseObsidianNotes: numbering and dependency remapping of the drafts    *)
(* returned by the text-generation service.                                *)
(***************************************************************************)
Draft(id, title, dependencies) == [id |-> id, title |-> title, dependencies |-> dependencies]

\* the answers of generateObjectService the model draws from
GeneratedBatches ==
    { <<Draft(1, "A", <<>>)>>,
      <<Draft(10, "A", <<20>>), Draft(20, "B", <<10, 2, 1>>)>> }

\* allData[targetTag].tasks is a non-empty array
HasExistingTasksInTag(tag) ==
    /\ storeFile = "ok"
    /\ store[tag].kind = "tasks"
    /\ Len(store[tag].tasks) > 0

ExistingTasks(tag) == IF HasExistingTasksInTag(tag) THEN store[tag].tasks ELSE <<>>

\* nextId = Math.max(...existingTasks.map(t => t.id || 0)) + 1, or 1
NextId(tag) == IF HasExistingTasksInTag(tag) THEN MaxId(store[tag].tasks) + 1 ELSE 1

\* taskMap.get(depId): the new id of the last draft carrying that provisional id
TaskMapGet(drafts, nextId, depId) ==
    LET hits == {i \in 1..Len(drafts) : drafts[i].id = depId}
    IN  IF hits = {} THEN 0
        ELSE nextId + (CHOOSE i \in hits : \A j \in hits : j <= i) - 1

RECURSIVE RemapDependenciesUnmapped(_, _, _, _, _)
\* mutant: a provisional id the batch does not hold is kept as it is
RemapDependenciesUnmapped(deps, taskId, drafts, nextId, existing) ==
    IF deps = <<>> THEN <<>>
    ELSE LET mapped == TaskMapGet(drafts, nextId, Head(deps))
             newDepId == IF mapped = 0 THEN Head(deps) ELSE mapped
             keep == /\ newDepId < taskId
                     /\ \/ \E i \in 1..Len(existing) : existing[i].id = newDepId
                        \/ newDepId \in nextId..(nextId + Len(drafts) - 1)
             rest == RemapDependenciesUnmapped(Tail(deps), taskId, drafts, nextId,
                                               existing)
         IN  IF keep THEN <<newDepId>> \o rest ELSE rest

RECURSIVE RemapDependenciesForward(_, _, _, _, _)
\* mutant: the remapped id is not compared with the task's own id
RemapDependenciesForward(deps, taskId, drafts, nextId, existing) ==
    IF deps = <<>> THEN <<>>
    ELSE LET newDepId == TaskMapGet(drafts, nextId, Head(deps))
             keep == /\ newDepId # 0
                     /\ \/ \E i \in 1..Len(existing) : existing[i].id = newDepId
                        \/ newDepId \in nextId..(nextId + Len(drafts) - 1)
             rest == RemapDependenciesForward(Tail(deps), taskId, drafts, nextId,
                                              existing)
         IN  IF keep THEN <<newDepId>> \o rest ELSE rest

RECURSIVE RemapDependencies(_, _, _, _, _)
\* .map(depId => taskMap.get(depId)).filter(newDepId => newDepId != null &&
\*   newDepId < task.id && (existing.some(..) || processedNewTasks.some(..)))
RemapDependencies(deps, taskId, drafts, nextId, existing) ==
    IF deps = <<>> THEN <<>>
    ELSE LET newDepId == TaskMapGet(drafts, nextId, Head(deps))
             keep == /\ newDepId # 0
                     /\ newDepId < taskId
                     /\ \/ \E i \in 1..Len(existing) : existing[i].id = newDepId
                        \/ newDepId \in nextId..(nextId + Len(drafts) - 1)
             rest == RemapDependencies(Tail(deps), taskId, drafts, nextId, existing)
         IN  IF keep THEN <<newDepId>> \o rest ELSE rest

\* processedNewTasks after the remapping
ProcessedNewTasks(drafts, nextId, existing, t) ==
    [i \in 1..Len(drafts) |->
        Task(nextId + i - 1, drafts[i].title, "pending", "d", "medium", "",
             RemapDependencies(drafts[i].dependencies, nextId + i - 1, drafts,
                               nextId, existing),
             NoFile, "pending", <<t>>)]

\* finalTasks = append ? [...existingTasks, ...processedNewTasks] : processedNewTasks
FinalTasks(append, existing, new) == IF append THEN existing \o new ELSE new

\* mutant: the output built without reading the existing tasks.json
OutputDataFresh == EmptyDocument

\* outputData: the parsed tasks.json, or {} when it is missing or unparsable
OutputData == Document

\* the files scanObsidianNotes reads: *.md outside Templates, Archive,
\* .obsidian and Tasks
ScannedFiles(v) == {p \in DOMAIN v : p.dir = ""}

(***************************************************************************)
(* Initial states: a store and a vault as a previous session may have left *)
(* them.  A record of the store may never have been synchronised, may have *)
(* been stamped at time 1 or, in a store imported from elsewhere, before   *)
(* the epoch.                                                              *)
(***************************************************************************)
F1 == RootFile("f1")

F2 == RootFile("f2")

SeedTasks ==
    { Task(2, "A", "pending", "d", "high", "x", <<>>, NoFile, "pending", <<>>),
      Task(2, "A", "pending", "d", "high", "x", <<>>, F1, "pending", <<>>),
      Task(2, "A", "done", "A", "high", "x", <<>>, F1, "synced", <<1>>),
      Task(2, "A", "done", "d", "high", "x", <<>>, F1, "conflict", <<1>>),
      Task(2, "A", "done", "A", "high", "x", <<>>, F1, "synced", <<-1>>),
      Task(2, "A", "pending", "A", "high", "x", <<>>, F1, "synced", <<-1>>),
      Task(2, "A", "pending", "d", "high", "x", <<>>, F1, "synced", <<-1>>) }

OtherTask == Task(1, "B", "pending", "d", "low", "", <<>>, NoFile, "pending", <<>>)

InitDocuments ==
    { [master |-> TasksPartition(m), other |-> TasksPartition(<<OtherTask>>)] :
        m \in {<<>>} \cup { <<t>> : t \in SeedTasks } }

InitVaults ==
    { <<>>,
      [p \in {F1} |-> File(<<Line("A", FALSE)>>, 0)],
      [p \in {F1} |-> File(<<Line("A", FALSE), Line("B", TRUE)>>, 0)],
      [p \in {F1, F2} |-> File(<<Line("A", TRUE)>>, 0)] }

Init ==
    /\ \/ storeFile = "ok" /\ store \in InitDocuments
       \/ storeFile \in {"missing", "corrupt"} /\ store = EmptyDocument
    /\ vault \in InitVaults
    /\ now = 1
    /\ edits = 0
    /\ pc = "idle"
    /\ run = NoRun
    /\ mem = <<>>
    /\ idx = 0
    /\ vaultTasks = <<>>
    /\ results = ZeroResults
    /\ outcome = "none"
    /\ writeCalls = 0
    /\ fileOps = 0
    /\ readOnly = {}
    /\ content = <<>>
    /\ record = <<>>
    /\ applied = <<>>

(***************************************************************************)
(* The environment: the clock, and a person editing the vault by hand      *)
(* between two passes.                                                     *)
(***************************************************************************)
Tick ==
    /\ UNCHANGED <<readOnly, textVars>>
    /\ pc = "idle"
    /\ now < MaxClock
    /\ now' = now + 1
    /\ UNCHANGED <<storeFile, store, vault, edits, pc, run, mem, idx, vaultTasks,
                   results, outcome, writeCalls, fileOps>>

EditUnchanged == UNCHANGED <<storeFile, store, now, pc, run, mem, idx, vaultTasks,
                             results, outcome, writeCalls, fileOps, readOnly, textVars>>

\* a person adds a checkbox line to a note (creating the note if need be)
EditAddLine ==
    /\ pc = "idle"
    /\ edits < MaxEdits
    /\ \E f \in {F1, F2}, title \in Titles, checked \in BOOLEAN :
          LET old == IF f \in DOMAIN vault THEN vault[f].lines ELSE <<>>
          IN  vault' = WriteFile(vault, f, Append(old, Line(title, checked)), now)
    /\ edits' = edits + 1
    /\ EditUnchanged

\* a person ticks or unticks a checkbox
EditToggle ==
    /\ pc = "idle"
    /\ edits < MaxEdits
    /\ \E f \in DOMAIN vault :
          \E i \in 1..Len(vault[f].lines) :
             vault' = WriteFile(vault, f,
                          [vault[f].lines EXCEPT ![i].checked = ~@], now)
    /\ edits' = edits + 1
    /\ EditUnchanged

\* a person deletes a note
EditDelete ==
    /\ pc = "idle"
    /\ edits < MaxEdits
    /\ \E f \in DOMAIN vault : vault' = [p \in (DOMAIN vault) \ {f} |-> vault[p]]
    /\ edits' = edits + 1
    /\ EditUnchanged

(***************************************************************************)
(* syncWithObsidian(tasksPath, vaultPath, {tag, direction}).               *)
(***************************************************************************)
Directions == {"to-obsidian", "from-obsidian", "bidirectional"}

\* a write of tasks.json succeeds; otherwise it throws to the caller
StoreWritable == StorePath \notin readOnly

\* the ids a from-obsidian pass over the vault can reach stay within cap
Within(tasks, cap) == MaxId(tasks) + Len(extractTasksFromVault(vault)) <= cap

WithinCap(tasks) == Within(tasks, MaxTasks)

\* where syncWithObsidian goes once the to-obsidian block is over
AfterTo(direction) == IF direction = "bidirectional" THEN "from" ELSE "done"

\* lines 12-30: read the partition, throw when there is none, enter the first block
SyncWithObsidianCall(tags, directions) ==
    /\ UNCHANGED <<readOnly, textVars>>
    /\ pc = "idle"
    /\ \E tag \in tags, direction \in directions :
          LET data == readJSON(tag)
              first == IF direction = "from-obsidian" THEN "from"
                       ELSE IF Len(data[1]) > 0 THEN "to" ELSE AfterTo(direction)
          IN  /\ run' = [fn |-> "syncWithObsidian", direction |-> direction,
                         tag |-> tag, dryRun |-> FALSE]
              /\ IF data = <<>>
                 THEN /\ pc' = "done"
                      /\ outcome' = "threw"
                      /\ mem' = <<>>
                      /\ vaultTasks' = <<>>
                 ELSE /\ direction # "to-obsidian" => WithinCap(data[1])
                      /\ pc' = first
                      /\ outcome' = IF first = "done" THEN "returned" ELSE "none"
                      /\ mem' = data[1]
                      /\ vaultTasks' = IF first = "from"
                                       THEN extractTasksFromVault(vault) ELSE <<>>
    /\ idx' = 1
    /\ results' = ZeroResults
    /\ writeCalls' = 0
    /\ fileOps' = 0
    /\ UNCHANGED <<storeFile, store, vault, now, edits>>

\* mutant: the to-obsidian loop takes every record, with or without a sourceFile
HasSourceFileAlways(task) == TRUE

\* line 34: if (task.sourceFile)
HasSourceFile(task) == task.sourceFile # NoFile

\* lines 33-46: one task of the to-obsidian loop; updateMarkdownFile throws on
\* a path that cannot be written, and the catch block pushes {task: task.id, error}
SyncWithObsidianTo ==
    /\ UNCHANGED <<readOnly, textVars>>
    /\ pc = "to"
    /\ run.fn = "syncWithObsidian"
    /\ idx <= Len(mem)
    /\ LET task == mem[idx]
           next == IF idx = Len(mem) THEN AfterTo(run.direction) ELSE "to"
           writes == HasSourceFile(task) /\ task.sourceFile \notin readOnly
           v == IF writes THEN updateMarkdownFile(vault, task, now) ELSE vault
       IN  /\ vault' = v
           /\ IF ~HasSourceFile(task)
              THEN UNCHANGED <<results, fileOps>>
              ELSE IF writes
              THEN /\ results' = [results EXCEPT !.updated = @ + 1]
                   /\ fileOps' = fileOps + 1
              ELSE /\ results' = [results EXCEPT !.errors = Append(@, task.id)]
                   /\ UNCHANGED fileOps
           /\ idx' = idx + 1
           /\ pc' = next
           /\ outcome' = IF next = "done" THEN "returned" ELSE "none"
           /\ vaultTasks' = IF next = "from" THEN extractTasksFromVault(v) ELSE <<>>
    /\ UNCHANGED <<storeFile, store, now, edits, run, mem, writeCalls>>

\* lines 54-88: one extracted record of the from-obsidian loop
SyncWithObsidianFrom ==
    /\ UNCHANGED <<readOnly, textVars>>
    /\ pc = "from"
    /\ run.fn = "syncWithObsidian"
    /\ vaultTasks # <<>>
    /\ LET r == SyncRecord(mem, results, Head(vaultTasks), now)
       IN  /\ mem' = r.tasks
           /\ results' = r.results
    /\ vaultTasks' = Tail(vaultTasks)
    /\ UNCHANGED <<storeFile, store, vault, now, edits, pc, run, idx, outcome,
                   writeCalls, fileOps>>

\* lines 90-95: save the partition and return
SyncWithObsidianSave ==
    /\ UNCHANGED <<readOnly, textVars>>
    /\ pc = "from"
    /\ run.fn = "syncWithObsidian"
    /\ vaultTasks = <<>>
    /\ IF SyncSaves(results) /\ StoreWritable
       THEN /\ store' = writeJSON(run.tag, TasksPartition(mem))
            /\ storeFile' = "ok"
            /\ writeCalls' = writeCalls + 1
       ELSE UNCHANGED <<store, storeFile, writeCalls>>
    /\ pc' = "done"
    /\ outcome' = IF SyncSaves(results) /\ ~StoreWritable THEN "threw" ELSE "returned"
    /\ UNCHANGED <<vault, now, edits, run, mem, idx, vaultTasks, results, fileOps>>

(***************************************************************************)
(* syncTasksFromObsidian({vaultPath, tasksPath, tag, dryRun}).             *)
(***************************************************************************)
\* lines 341-370: extract, return early on an empty vault, read the partition
SyncTasksFromObsidianUpTo(tags, cap) ==
    /\ UNCHANGED <<readOnly, textVars>>
    /\ pc = "idle"
    /\ \E tag \in tags, dryRun \in BOOLEAN :
          LET found == extractTasksFromVault(vault)
              data == readJSON(tag)
              tasks == IF data = <<>> THEN <<>> ELSE data[1]
          IN  /\ run' = [fn |-> "syncTasksFromObsidian", direction |-> "from-obsidian",
                         tag |-> tag, dryRun |-> dryRun]
              /\ IF Len(found) = 0
                 THEN /\ pc' = "done"
                      /\ outcome' = "returned"
                      /\ mem' = <<>>
                 ELSE /\ Within(tasks, cap)
                      /\ pc' = "from"
                      /\ outcome' = "none"
                      /\ mem' = tasks
              /\ vaultTasks' = found
    /\ idx' = 1
    /\ results' = ZeroResults
    /\ writeCalls' = 0
    /\ fileOps' = 0
    /\ UNCHANGED <<storeFile, store, vault, now, edits>>

SyncTasksFromObsidianCall(tags) == SyncTasksFromObsidianUpTo(tags, MaxTasks)

\* lines 372-428: one extracted record
SyncTasksFromObsidianRecord ==
    /\ UNCHANGED <<readOnly, textVars>>
    /\ pc = "from"
    /\ run.fn = "syncTasksFromObsidian"
    /\ vaultTasks # <<>>
    /\ LET r == FromRecord(mem, results, Head(vaultTasks), run.dryRun, now)
       IN  /\ mem' = r.tasks
           /\ results' = r.results
    /\ vaultTasks' = Tail(vaultTasks)
    /\ UNCHANGED <<storeFile, store, vault, now, edits, pc, run, idx, outcome,
                   writeCalls, fileOps>>

\* lines 430-436: save if something was created or updated, and return
SyncTasksFromObsidianSave ==
    /\ UNCHANGED <<readOnly, textVars>>
    /\ pc = "from"
    /\ run.fn = "syncTasksFromObsidian"
    /\ vaultTasks = <<>>
    /\ IF FromSaves(results, run.dryRun) /\ StoreWritable
       THEN /\ store' = writeJSON(run.tag, TasksPartition(mem))
            /\ storeFile' = "ok"
            /\ writeCalls' = writeCalls + 1
       ELSE UNCHANGED <<store, storeFile, writeCalls>>
    /\ pc' = "done"
    /\ outcome' = IF FromSaves(results, run.dryRun) /\ ~StoreWritable
                  THEN "threw" ELSE "returned"
    /\ UNCHANGED <<vault, now, edits, run, mem, idx, vaultTasks, results, fileOps>>

(***************************************************************************)
(* syncTasksToObsidian({vaultPath, tasksPath, tag, dryRun}).               *)
(***************************************************************************)
SyncTasksToObsidian ==
    /\ UNCHANGED <<readOnly, textVars>>
    /\ pc = "idle"
    /\ \E tag \in Tags, dryRun \in BOOLEAN :
          LET data == readJSON(tag)
              r == ToObsidianLoop(vault, data[1], ZeroResults, dryRun, readOnly, now)
          IN  /\ run' = [fn |-> "syncTasksToObsidian", direction |-> "to-obsidian",
                         tag |-> tag, dryRun |-> dryRun]
              /\ IF data = <<>>
                 THEN /\ outcome' = "threw"
                      /\ mem' = <<>>
                      /\ UNCHANGED vault
                      /\ results' = ZeroResults
                      /\ fileOps' = 0
                 ELSE /\ outcome' = "returned"
                      /\ mem' = data[1]
                      /\ vault' = r.vault
                      /\ results' = r.results
                      /\ fileOps' = r.results.created + r.results.updated
    /\ pc' = "done"
    /\ idx' = 1
    /\ vaultTasks' = <<>>
    /\ writeCalls' = 0
    /\ UNCHANGED <<storeFile, store, now, edits>>

\* the caller takes the result; nothing of the pass outlives it
Return ==
    /\ UNCHANGED <<readOnly, textVars>>
    /\ pc = "done"
    /\ pc' = "idle"
    /\ run' = NoRun
    /\ mem' = <<>>
    /\ idx' = 0
    /\ vaultTasks' = <<>>
    /\ results' = ZeroResults
    /\ outcome' = "none"
    /\ writeCalls' = 0
    /\ fileOps' = 0
    /\ UNCHANGED <<storeFile, store, vault, now, edits>>

(***************************************************************************)
(* parseObsidianNotes(vaultPath, tasksPath, numTasks, {tag, force, append, *)
(* syncAfterParse}).                                                       *)
(***************************************************************************)
\* mutant: the partition is overwritten without being asked
OverwriteRefusedNever(tag, force, append) == FALSE

\* lines 289-316: existing tasks in the tag need --append or --force
OverwriteRefused(tag, force, append) ==
    HasExistingTasksInTag(tag) /\ ~append /\ ~force

\* lines 325-331: nothing to read in the vault
NothingScanned(v) == ScannedFiles(v) = {}

ParseObsidianNotesCall(tags, syncOptions) ==
    /\ UNCHANGED <<readOnly, textVars>>
    /\ pc = "idle"
    /\ \E tag \in tags, force \in BOOLEAN, append \in BOOLEAN,
          syncAfterParse \in syncOptions, drafts \in GeneratedBatches :
          LET existing == ExistingTasks(tag)
              nextId == NextId(tag)
              new == ProcessedNewTasks(drafts, nextId, existing, now)
              final == FinalTasks(append, existing, new)
              synced == ToObsidianLoop(vault, final, ZeroResults, FALSE, readOnly, now)
          IN  /\ nextId + Len(drafts) - 1 <= MaxTasks
              /\ run' = [fn |-> "parseObsidianNotes", direction |-> "none",
                         tag |-> tag, dryRun |-> FALSE, force |-> force,
                         append |-> append, drafts |-> drafts]
              /\ IF \/ OverwriteRefused(tag, force, append)
                    \/ NothingScanned(vault)
                    \/ ~StoreWritable
                 THEN /\ outcome' = "threw"
                      /\ writeCalls' = 0
                      /\ fileOps' = 0
                      /\ results' = ZeroResults
                      /\ mem' = <<>>
                      /\ UNCHANGED <<storeFile, store, vault>>
                 ELSE /\ outcome' = "returned"
                      /\ store' = [OutputData EXCEPT ![tag] = TasksPartition(final)]
                      /\ storeFile' = "ok"
                      /\ writeCalls' = 1
                      /\ mem' = final
                      /\ IF syncAfterParse
                         THEN /\ vault' = synced.vault
                              /\ results' = synced.results
                              /\ fileOps' = synced.results.created + synced.results.updated
                         ELSE /\ UNCHANGED vault
                              /\ results' = ZeroResults
                              /\ fileOps' = 0
    /\ pc' = "done"
    /\ idx' = 1
    /\ vaultTasks' = <<>>
    /\ UNCHANGED <<now, edits>>

(***************************************************************************)
(* parseObsidianVault(vaultPath, tasksPath, numTasks, {tag}).              *)
(***************************************************************************)
\* extractedTasks.slice(0, numTasks).map((task, index) => ({...task,
\*     id: nextId + index, syncStatus: 'synced', lastSyncAt: ...}))
ProcessedTasks(extracted, numTasks, nextId, t) ==
    [i \in 1..(IF Len(extracted) < numTasks THEN Len(extracted) ELSE numTasks) |->
        NewTask(extracted[i], nextId + i - 1, t)]

ParseObsidianVault ==
    /\ UNCHANGED <<readOnly, textVars>>
    /\ pc = "idle"
    /\ \E tag \in Tags, numTasks \in 1..2 :
          LET processed == ProcessedTasks(extractTasksFromVault(vault), numTasks,
                                          NextId(tag), now)
          IN  /\ NextId(tag) + Len(processed) - 1 <= MaxTasks
              /\ run' = [fn |-> "parseObsidianVault", direction |-> "none",
                         tag |-> tag, dryRun |-> FALSE]
              /\ IF StoreWritable
                 THEN /\ store' = writeJSON(tag, WrappedPartition(processed))
                      /\ storeFile' = "ok"
                      /\ writeCalls' = 1
                      /\ outcome' = "returned"
                 ELSE /\ UNCHANGED <<store, storeFile>>
                      /\ writeCalls' = 0
                      /\ outcome' = "threw"
              /\ mem' = processed
    /\ fileOps' = 0
    /\ results' = ZeroResults
    /\ pc' = "done"
    /\ idx' = 1
    /\ vaultTasks' = <<>>
    /\ UNCHANGED <<vault, now, edits>>

(***************************************************************************)
(* Spec: the synchronisation passes on the master tag, between hand edits  *)
(* of the vault.                                                           *)
(***************************************************************************)
SyncWithObsidianStart == SyncWithObsidianCall(SyncTags, Directions)

SyncTasksFromObsidianStart == SyncTasksFromObsidianCall(SyncTags)

Next ==
    \/ Tick
    \/ EditAddLine
    \/ EditToggle
    \/ EditDelete
    \/ SyncWithObsidianStart
    \/ SyncWithObsidianTo
    \/ SyncWithObsidianFrom
    \/ SyncWithObsidianSave
    \/ SyncTasksFromObsidianStart
    \/ SyncTasksFromObsidianRecord
    \/ SyncTasksFromObsidianSave
    \/ Return

Spec == Init /\ [][Next]_vars

(***************************************************************************)
(* SpecStore: every operation that writes tasks.json, called with either   *)
(* tag, on a document that holds two partitions.                           *)
(***************************************************************************)
InitStore ==
    /\ Init
    /\ storeFile = "ok"
    /\ vault = [p \in {F1} |-> File(<<Line("A", FALSE)>>, 0)]
    /\ store.master.tasks \in
          {<<>>, <<Task(2, "A", "pending", "d", "high", "x", <<>>, F1, "pending", <<>>)>>}

SyncWithObsidianAnyTag == SyncWithObsidianCall(Tags, {"from-obsidian"})

SyncTasksFromObsidianAnyTag == SyncTasksFromObsidianCall(Tags)

\* syncAfterParse only writes vault files; it is left off here
ParseObsidianNotes == ParseObsidianNotesCall(Tags, {FALSE})

NextStore ==
    \/ SyncWithObsidianAnyTag
    \/ SyncWithObsidianFrom
    \/ SyncWithObsidianSave
    \/ SyncTasksFromObsidianAnyTag
    \/ SyncTasksFromObsidianRecord
    \/ SyncTasksFromObsidianSave
    \/ ParseObsidianNotes
    \/ ParseObsidianVault
    \/ Return

SpecStore == InitStore /\ [][NextStore]_vars

(***************************************************************************)
(* SpecTo: the to-obsidian passes and the dry runs, on partitions of up to *)
(* three records, one of them without a sourceFile, and a vault in which   *)
(* some paths cannot be written.                                           *)
(***************************************************************************)
ToSeedA == Task(1, "A", "pending", "d", "high", "x", <<>>, NoFile, "pending", <<>>)

ToSeedB == Task(2, "B", "done", "d", "high", "x", <<>>, F1, "synced", <<1>>)

ToSeedC == Task(3, "A", "done", "d", "high", "x", <<>>, F2, "synced", <<1>>)

ToSeedLists ==
    { <<>>, <<ToSeedA>>, <<ToSeedB>>, <<ToSeedA, ToSeedB>>, <<ToSeedB, ToSeedA, ToSeedC>> }

\* the vault of a previous session: notes, and a generated file of task 2 to
\* which a person has added a line
ToVaults ==
    { <<>>,
      [p \in {F1} |-> File(<<Line("A", FALSE), Line("B", FALSE)>>, 0)],
      [p \in {F1, F2} |-> File(<<Line("A", TRUE)>>, 0)],
      [p \in {F1, TaskFile(2, "B")} |->
          IF p = F1 THEN File(<<Line("B", FALSE)>>, 0)
          ELSE File(<<Line("B", FALSE), Line("A", TRUE)>>, 0)] }

InitTo ==
    /\ storeFile = "ok"
    /\ \E m \in ToSeedLists :
          store = [master |-> TasksPartition(m), other |-> TasksPartition(<<OtherTask>>)]
    /\ vault \in ToVaults
    /\ readOnly \in SUBSET {F1, TaskFile(2, "B")}
    /\ now = 1
    /\ edits = 0
    /\ pc = "idle"
    /\ run = NoRun
    /\ mem = <<>>
    /\ idx = 0
    /\ vaultTasks = <<>>
    /\ results = ZeroResults
    /\ outcome = "none"
    /\ writeCalls = 0
    /\ fileOps = 0
    /\ content = <<>>
    /\ record = <<>>
    /\ applied = <<>>

SyncWithObsidianToOnly == SyncWithObsidianCall(SyncTags, {"to-obsidian"})

NextTo ==
    \/ SyncTasksToObsidian
    \/ SyncWithObsidianToOnly
    \/ SyncWithObsidianTo
    \/ SyncTasksFromObsidianStart
    \/ SyncTasksFromObsidianRecord
    \/ SyncTasksFromObsidianSave
    \/ Return

SpecTo == InitTo /\ [][NextTo]_vars

(***************************************************************************)
(* The projector and the extractor on text.  A text is the sequence of its *)
(* characters; a fixed phrase of the renderer that holds no line break,    *)
(* bracket or dollar sign ("task_id: ", "## Description") is kept as one   *)
(* element.  The operators on Line records above are these functions on    *)
(* notes whose titles are plain words.                                     *)
(***************************************************************************)
MaxTitle == 3

NL == "\n"

\* the characters titles are made of: letters of both cases, what a checkbox
\* is written with, and what String.prototype.replace reads in a replacement
Alphabet == {"a", "A", "x", "[", "]", "$", "1"}

TextTitles == UNION {[1..n -> Alphabet] : n \in 1..MaxTitle}

\* `- ${checkbox} ${task.title}`
Checkbox(mark, title) == <<"-", " ", "[", mark, "]", " ">> \o title

\* task.status === 'done' ? '[x]' : '[ ]'
Mark(task) == IF task.status = "done" THEN "x" ELSE " "

\* the first line of a text and what follows its line break
FirstLine(text) ==
    LET ends == {i \in 1..Len(text) : text[i] = NL}
        e == FirstIndex(ends)
    IN  IF e = 0 THEN [line |-> text, rest |-> <<>>, last |-> TRUE]
        ELSE [line |-> SubSeq(text, 1, e - 1),
              rest |-> SubSeq(text, e + 1, Len(text)), last |-> FALSE]

RECURSIVE SplitLines(_)
SplitLines(text) ==
    LET f == FirstLine(text)
    IN  IF f.last THEN <<f.line>> ELSE <<f.line>> \o SplitLines(f.rest)

\* /^- \[([ x])\] (.+)$/ on one line
IsCheckboxLine(line) ==
    /\ Len(line) >= 7
    /\ line[1] = "-" /\ line[2] = " " /\ line[3] = "["
    /\ line[4] \in {" ", "x"}
    /\ line[5] = "]" /\ line[6] = " "

\* String.prototype.includes
Includes(text, part) ==
    \E i \in 1..(Len(text) - Len(part) + 1) : SubSeq(text, i, i + Len(part) - 1) = part

\* lines 136-152: isCompleted = match.includes('[x]'), taskText = match.replace(...)
TextTask(line) ==
    [title |-> SubSeq(line, 7, Len(line)),
     status |-> IF Includes(line, <<"[", "x", "]">>) THEN "done" ELSE "pending"]

\* content.match(/^- \[([ x])\] (.+)$/gm) and the record of each match
ExtractTaskMatches(text) ==
    LET hit(line) == IsCheckboxLine(line)
        matches == SelectSeq(SplitLines(text), hit)
    IN  [i \in 1..Len(matches) |-> TextTask(matches[i])]

\* new RegExp(`^- \\[([ x])\\] ${escapeRegex(task.title)}$`, 'm') matches at i
MatchesAt(text, i, title) ==
    LET e == i + 5 + Len(title)
    IN  /\ i = 1 \/ text[i - 1] = NL
        /\ e <= Len(text)
        /\ \E mark \in {" ", "x"} : SubSeq(text, i, e) = Checkbox(mark, title)
        /\ e = Len(text) \/ text[e + 1] = NL

\* String.prototype.replace expands a replacement string: $$ is a dollar sign
\* and $1 the first group ($&, $` and $' need characters no title here has)
RECURSIVE Substitute(_, _)
Substitute(replacement, group) ==
    IF replacement = <<>> THEN <<>>
    ELSE IF Head(replacement) = "$" /\ Len(replacement) >= 2 /\ replacement[2] = "$"
    THEN <<"$">> \o Substitute(SubSeq(replacement, 3, Len(replacement)), group)
    ELSE IF Head(replacement) = "$" /\ Len(replacement) >= 2 /\ replacement[2] = "1"
    THEN <<group>> \o Substitute(SubSeq(replacement, 3, Len(replacement)), group)
    ELSE <<Head(replacement)>> \o Substitute(Tail(replacement), group)

\* updateTaskInMarkdown(content, task) on text
UpdateTaskInMarkdownText(text, task) ==
    LET i == FirstIndex({k \in 1..Len(text) : MatchesAt(text, k, task.title)})
        replacement == Checkbox(Mark(task), task.title)
    IN  IF i # 0
        THEN SubSeq(text, 1, i - 1)
                 \o Substitute(replacement, text[i + 3])
                 \o SubSeq(text, i + 6 + Len(task.title), Len(text))
        ELSE text \o <<NL>> \o replacement \o <<NL>>

\* generateMarkdownForTask(task) on text, for a record without details, test
\* strategy, dependencies, tags and links
GenerateMarkdownText(task) ==
    (IF task.id # 0
     THEN <<"---", NL, "task_id: ", ToString(task.id), NL, "priority: ", task.priority, NL,
            "status: ", task.status, NL, "---", NL, NL>>
     ELSE <<>>)
    \o <<"#", " ">> \o task.title \o <<NL, NL>>
    \o Checkbox(Mark(task), task.title) \o <<NL, NL>>
    \o (IF task.description # <<>>
        THEN <<"## Description", NL>> \o task.description \o <<NL, NL>>
        ELSE <<>>)

(***************************************************************************)
(* SpecText: the projector and the extractor applied to a record and an    *)
(* existing text.                                                          *)
(***************************************************************************)
\* String.prototype.toLowerCase on the letters of Alphabet
Lower(text) == [i \in 1..Len(text) |-> IF text[i] = "A" THEN "a" ELSE text[i]]

TextRecords ==
    { [id |-> 2, title |-> title, status |-> status, priority |-> "high",
       description |-> description] :
        title \in TextTitles, status \in {"pending", "done"},
        description \in {<<>>, <<"d">>} }

\* a line of a note that is no checkbox
Note == <<"n", "o", "t", "e">>

\* the texts a note may hold for a record of the given title: nothing, prose,
\* the checkbox of the title (unticked, ticked, in lower case, twice), alone
\* or among other lines
ExistingTexts(title) ==
    { <<>>,
      Note,
      Checkbox(" ", title),
      Checkbox("x", title) \o <<NL>>,
      Note \o <<NL>> \o Checkbox(" ", title) \o <<NL>> \o Checkbox("x", <<"b">>),
      Checkbox(" ", Lower(title)) \o <<NL>> \o Note,
      Checkbox(" ", title) \o <<NL>> \o Checkbox(" ", title) }

InitText ==
    /\ record \in TextRecords
    /\ content \in ExistingTexts(record.title)
    /\ applied = <<>>
    /\ storeFile = "ok"
    /\ store = EmptyDocument
    /\ vault = <<>>
    /\ readOnly = {}
    /\ now = 1
    /\ edits = 0
    /\ pc = "idle"
    /\ run = NoRun
    /\ mem = <<>>
    /\ idx = 0
    /\ vaultTasks = <<>>
    /\ results = ZeroResults
    /\ outcome = "none"
    /\ writeCalls = 0
    /\ fileOps = 0

TextUnchanged == UNCHANGED <<storeFile, store, vault, now, edits, pc, run, mem, idx,
                             results, outcome, writeCalls, fileOps, readOnly, record>>

\* content = updateTaskInMarkdown(content, task), once and once more
ApplyUpdate ==
    /\ applied \in {<<>>, <<"update">>}
    /\ content' = UpdateTaskInMarkdownText(content, record)
    /\ applied' = Append(applied, "update")
    /\ UNCHANGED vaultTasks
    /\ TextUnchanged

\* content = generateMarkdownForTask(task)
ApplyRender ==
    /\ applied = <<>>
    /\ content' = GenerateMarkdownText(record)
    /\ applied' = <<"render">>
    /\ UNCHANGED vaultTasks
    /\ TextUnchanged

\* the loop of extractTasksFromVault over the matches of one file
ApplyExtract ==
    /\ Len(applied) = 1
    /\ vaultTasks' = ExtractTaskMatches(content)
    /\ applied' = Append(applied, "extract")
    /\ UNCHANGED content
    /\ TextUnchanged

NextText ==
    \/ ApplyUpdate
    \/ ApplyRender
    \/ ApplyExtract

SpecText == InitText /\ [][NextText]_vars

(***************************************************************************)
(* Identifiers and cross-reference tokens (Task-master fork plan,          *)
(* modificacoes-sistema-dependencias-obsidian.md).  A JavaScript value is  *)
(* a number, a string of characters or null; a task carries an id, a title *)
(* and its subtasks.                                                       *)
(***************************************************************************)
\* the longest inner text of a token the resolver is tried on
MaxLink == 2

Num(n) == [type |-> "number", n |-> n]

Str(s) == [type |-> "string", s |-> s]

Null == [type |-> "null"]

Digits == <<"0", "1", "2", "3", "4", "5", "6", "7", "8", "9">>

RECURSIVE NumberToString(_)
\* Number.prototype.toString of a natural number
NumberToString(n) ==
    IF n < 10 THEN <<Digits[n + 1]>>
    ELSE NumberToString(n \div 10) \o <<Digits[(n % 10) + 1]>>

RECURSIVE ParseDigits(_)
\* parseInt of a string of digits
ParseDigits(s) ==
    IF s = <<>> THEN 0
    ELSE 10 * ParseDigits(SubSeq(s, 1, Len(s) - 1))
         + (CHOOSE d \in 0..9 : Digits[d + 1] = s[Len(s)])

StartsWith(s, prefix) == Len(s) >= Len(prefix) /\ SubSeq(s, 1, Len(prefix)) = prefix

EndsWith(s, suffix) ==
    Len(s) >= Len(suffix) /\ SubSeq(s, Len(s) - Len(suffix) + 1, Len(s)) = suffix

RECURSIVE TrimStart(_)
TrimStart(s) == IF s # <<>> /\ Head(s) = " " THEN TrimStart(Tail(s)) ELSE s

RECURSIVE TrimEnd(_)
TrimEnd(s) ==
    IF s # <<>> /\ s[Len(s)] = " " THEN TrimEnd(SubSeq(s, 1, Len(s) - 1)) ELSE s

\* String.prototype.trim
Trim(s) == TrimEnd(TrimStart(s))

\* typeof id === 'string' && id.startsWith('[[') && id.endsWith(']]')
IsLink(id) ==
    id.type = "string" /\ StartsWith(id.s, <<"[", "[">>) /\ EndsWith(id.s, <<"]", "]">>)

\* identifier.slice(2, -2).trim()
LinkText(id) == Trim(SubSeq(id.s, 3, Len(id.s) - 2))

\* mutant: a string of digits is read back as a number
formatTaskIdParsing(id) ==
    IF id.type = "string" /\ Includes(id.s, <<".">>) THEN id
    ELSE IF IsLink(id) THEN id
    ELSE IF id.type = "number" THEN Str(NumberToString(id.n))
    ELSE IF id.type = "string" /\ id.s # <<>>
            /\ \A i \in 1..Len(id.s) : \E d \in 1..10 : Digits[d] = id.s[i]
         THEN Num(ParseDigits(id.s))
    ELSE id

formatTaskId(id) ==
    IF id.type = "string" /\ Includes(id.s, <<".">>) THEN id
    ELSE IF IsLink(id) THEN id
    ELSE IF id.type = "number" THEN Str(NumberToString(id.n))
    ELSE id

LinkTask(id, title, subtasks) == [id |-> id, title |-> title, subtasks |-> subtasks]

Subtask(id, title) == [id |-> id, title |-> title]

\* t.title && t.title.toLowerCase() === linkText.toLowerCase()
ExactTitle(t, linkText) == t.title # <<>> /\ Lower(t.title) = Lower(linkText)

\* t.title && t.title.toLowerCase().includes(linkText.toLowerCase())
PartialTitle(t, linkText) == t.title # <<>> /\ Includes(Lower(t.title), Lower(linkText))

\* `${parentTask.id}.${subtask.id}`
DottedId(parentId, subId) ==
    Str(NumberToString(parentId) \o <<".">> \o NumberToString(subId))

\* tasks.find(..) over the titles of the top-level tasks; 0 when none
FindExact(tasks, linkText) ==
    FirstIndex({i \in 1..Len(tasks) : ExactTitle(tasks[i], linkText)})

FindPartial(tasks, linkText) ==
    FirstIndex({i \in 1..Len(tasks) : PartialTitle(tasks[i], linkText)})

\* for (const parentTask of tasks) { subtasks.find(..) }: the first parent
\* that has a matching subtask, 0 when none
ParentOfExact(tasks, linkText) ==
    FirstIndex({i \in 1..Len(tasks) : FindExact(tasks[i].subtasks, linkText) # 0})

ParentOfPartial(tasks, linkText) ==
    FirstIndex({i \in 1..Len(tasks) : FindPartial(tasks[i].subtasks, linkText) # 0})

SubtaskId(parent, j) == DottedId(parent.id, parent.subtasks[j].id)

\* mutant: the substring match among top-level tasks tried before the exact
\* match among subtasks
resolveObsidianLinkPartialFirst(identifier, tasks) ==
    IF ~IsLink(identifier) THEN identifier
    ELSE LET linkText == LinkText(identifier)
             e == FindExact(tasks, linkText)
             pe == ParentOfExact(tasks, linkText)
             p == FindPartial(tasks, linkText)
             pp == ParentOfPartial(tasks, linkText)
         IN  IF linkText = <<>> THEN Null
             ELSE IF e # 0 THEN Num(tasks[e].id)
             ELSE IF p # 0 THEN Num(tasks[p].id)
             ELSE IF pe # 0
                  THEN SubtaskId(tasks[pe], FindExact(tasks[pe].subtasks, linkText))
             ELSE IF pp # 0
                  THEN SubtaskId(tasks[pp], FindPartial(tasks[pp].subtasks, linkText))
             ELSE identifier

\* mutant: a token that matches nothing resolves to the first task
resolveObsidianLinkFallback(identifier, tasks) ==
    IF ~IsLink(identifier) THEN identifier
    ELSE LET linkText == LinkText(identifier)
             e == FindExact(tasks, linkText)
             pe == ParentOfExact(tasks, linkText)
             p == FindPartial(tasks, linkText)
             pp == ParentOfPartial(tasks, linkText)
         IN  IF linkText = <<>> THEN Null
             ELSE IF e # 0 THEN Num(tasks[e].id)
             ELSE IF pe # 0
                  THEN SubtaskId(tasks[pe], FindExact(tasks[pe].subtasks, linkText))
             ELSE IF p # 0 THEN Num(tasks[p].id)
             ELSE IF pp # 0
                  THEN SubtaskId(tasks[pp], FindPartial(tasks[pp].subtasks, linkText))
             ELSE IF tasks # <<>> THEN Num(tasks[1].id)
             ELSE identifier

\* resolveObsidianLink(identifier, tasks, 'to-id'), tasks being an array
resolveObsidianLink(identifier, tasks) ==
    IF ~IsLink(identifier) THEN identifier
    ELSE LET linkText == LinkText(identifier)
             e == FindExact(tasks, linkText)
             pe == ParentOfExact(tasks, linkText)
             p == FindPartial(tasks, linkText)
             pp == ParentOfPartial(tasks, linkText)
         IN  IF linkText = <<>> THEN Null
             ELSE IF e # 0 THEN Num(tasks[e].id)
             ELSE IF pe # 0
                  THEN SubtaskId(tasks[pe], FindExact(tasks[pe].subtasks, linkText))
             ELSE IF p # 0 THEN Num(tasks[p].id)
             ELSE IF pp # 0
                  THEN SubtaskId(tasks[pp], FindPartial(tasks[pp].subtasks, linkText))
             ELSE identifier

\* validateObsidianLink(link, tasks).valid
validateObsidianLink(link, tasks) ==
    /\ link.type = "string"
    /\ StartsWith(link.s, <<"[", "[">>)
    /\ EndsWith(link.s, <<"]", "]">>)
    /\ LinkText(link) # <<>>
    /\ ~Includes(LinkText(link), <<"[", "[">>)
    /\ ~Includes(LinkText(link), <<"]", "]">>)

NoError == "none"

InvalidLink == "Invalid Obsidian link"

NoMatchingTask == "does not match any existing task"

\* the lines added to addDependency: the dependency as it is handed on to
\* the unchanged rest of the function, or the error process.exit(1) follows
addDependency(dependencyId, tasks) ==
    IF dependencyId.type = "string" /\ StartsWith(dependencyId.s, <<"[", "[">>)
    THEN IF ~validateObsidianLink(dependencyId, tasks)
         THEN [exit |-> TRUE, error |-> InvalidLink, formattedDependencyId |-> Null]
         ELSE LET resolvedDependencyId == resolveObsidianLink(dependencyId, tasks)
              IN  IF resolvedDependencyId = dependencyId
                  THEN [exit |-> TRUE, error |-> NoMatchingTask,
                        formattedDependencyId |-> Null]
                  ELSE [exit |-> FALSE, error |-> NoError,
                        formattedDependencyId |-> formatTaskId(resolvedDependencyId)]
    ELSE [exit |-> FALSE, error |-> NoError,
          formattedDependencyId |-> formatTaskId(dependencyId)]

(***************************************************************************)
(* SpecIds: the identifier functions applied to an identifier and a list   *)
(* of tasks.  record holds the two arguments, content the value returned.  *)
(***************************************************************************)
\* the characters of a token's inner text
LinkAlphabet == {"a", "A", "b", " "}

LinkTexts == UNION {[1..n -> LinkAlphabet] : n \in 0..MaxLink}

Link(text) == Str(<<"[", "[">> \o text \o <<"]", "]">>)

\* numbers, dotted subtask ids, plain strings, tokens, and strings that only
\* begin like a token
Identifiers ==
    {Num(n) : n \in {1, 2, 12}}
    \cup {Str(<<"1", ".", "2">>), Str(<<"2">>), Str(<<"1", "2">>), Str(<<"a">>),
          Str(<<"[", "[", "a">>), Str(<<"[", "[", "[", "[", "]", "]">>)}
    \cup {Link(text) : text \in LinkTexts}

LinkTitles == {<<>>, <<"a">>, <<"A">>, <<"a", "b">>, <<"b", "a">>}

SubtaskLists == {<<>>} \cup {<<Subtask(1, title)>> : title \in LinkTitles \ {<<>>}}
                \cup {<<Subtask(1, <<"a", "b">>), Subtask(2, <<"A">>)>>}

\* lists of up to two tasks, in either order of their ids
LinkTaskLists ==
    {<<>>}
    \cup {<<LinkTask(1, title, subtasks)>> : title \in LinkTitles, subtasks \in SubtaskLists}
    \cup {<<LinkTask(ids[1], t1, s1), LinkTask(ids[2], t2, s2)>> :
            ids \in {<<1, 2>>, <<2, 1>>}, t1 \in LinkTitles, t2 \in LinkTitles,
            s1 \in SubtaskLists, s2 \in {<<>>, <<Subtask(1, <<"a">>)>>}}

InitIds ==
    /\ record \in [identifier : Identifiers, tasks : LinkTaskLists]
    /\ content = record.identifier
    /\ applied = <<>>
    /\ storeFile = "ok"
    /\ store = EmptyDocument
    /\ vault = <<>>
    /\ readOnly = {}
    /\ now = 1
    /\ edits = 0
    /\ pc = "idle"
    /\ run = NoRun
    /\ mem = <<>>
    /\ idx = 0
    /\ vaultTasks = <<>>
    /\ results = ZeroResults
    /\ outcome = "none"
    /\ writeCalls = 0
    /\ fileOps = 0

\* content = formatTaskId(content), once and once more
ApplyFormat ==
    /\ applied \in {<<>>, <<"format">>}
    /\ content' = formatTaskId(content)
    /\ applied' = Append(applied, "format")
    /\ UNCHANGED vaultTasks
    /\ TextUnchanged

\* content = resolveObsidianLink(identifier, tasks, 'to-id')
ApplyResolve ==
    /\ applied = <<>>
    /\ content' = resolveObsidianLink(record.identifier, record.tasks)
    /\ applied' = <<"resolve">>
    /\ UNCHANGED vaultTasks
    /\ TextUnchanged

\* content = what addDependency reaches with the dependency
ApplyAddDependency ==
    /\ applied = <<>>
    /\ content' = addDependency(record.identifier, record.tasks)
    /\ applied' = <<"addDependency">>
    /\ UNCHANGED vaultTasks
    /\ TextUnchanged

NextIds ==
    \/ ApplyFormat
    \/ ApplyResolve
    \/ ApplyAddDependency

SpecIds == InitIds /\ [][NextIds]_vars

(***************************************************************************)
(* SpecInit: initObsidianSync({vaultPath, tasksPath, tag}) on a vault      *)
(* folder.  content holds what the path and the engine's files are:        *)
(* root is "missing", "file" or "dir"; a file is <<>> when absent and      *)
(* <<text>> when present.  record holds the options of the last call.      *)
(***************************************************************************)
TasksPaths == {"/tasks.json", "/other/tasks.json"}

\* the README the function writes: initialization time, tag and tasks file
Readme(t, tag, tasksPath) ==
    [kind |-> "readme", initialized |-> t, tag |-> tag, tasksPath |-> tasksPath]

\* a README somebody else wrote
ExistingReadme == [kind |-> "text", text |-> "Existing content"]

\* syncConfig, with settings.autoSync of the settings
SyncConfig(t, tag, tasksPath, autoSync) ==
    [initialized |-> t, tag |-> tag, tasksPath |-> tasksPath, autoSync |-> autoSync]

Folder(root, tasksDir, tagsDir, readme, config) ==
    [root |-> root, tasksDir |-> tasksDir, tagsDir |-> tagsDir,
     readme |-> readme, config |-> config]

\* validateObsidianVault(vaultPath) throws
InvalidVault(folder) == folder.root # "dir"

\* the folder after initObsidianSync has returned
initObsidianSync(folder, options, t) ==
    [folder EXCEPT
        !.tasksDir = TRUE,
        !.tagsDir = TRUE,
        !.readme = IF folder.readme = <<>>
                   THEN <<Readme(t, options.tag, options.tasksPath)>>
                   ELSE folder.readme,
        !.config = <<SyncConfig(t, options.tag, options.tasksPath, FALSE)>>]

\* the folders a call may find: no path, a file in its place, or a
\* directory with or without the two subdirectories, a README and a
\* configuration whose settings were changed by hand
InitFolders ==
    {Folder(root, FALSE, FALSE, <<>>, <<>>) : root \in {"missing", "file"}}
    \cup {Folder("dir", tasksDir, tagsDir, readme, config) :
            tasksDir \in BOOLEAN, tagsDir \in BOOLEAN,
            readme \in {<<>>, <<ExistingReadme>>},
            config \in {<<>>, <<SyncConfig(0, "master", "/tasks.json", TRUE)>>}}

InitInit ==
    /\ content \in InitFolders
    /\ record = <<>>
    /\ applied = <<>>
    /\ storeFile = "ok"
    /\ store = EmptyDocument
    /\ vault = <<>>
    /\ readOnly = {}
    /\ now = 1
    /\ edits = 0
    /\ pc = "idle"
    /\ run = NoRun
    /\ mem = <<>>
    /\ idx = 0
    /\ vaultTasks = <<>>
    /\ results = ZeroResults
    /\ outcome = "none"
    /\ writeCalls = 0
    /\ fileOps = 0

\* what a function tried on content leaves alone, outcome apart
CallUnchanged == UNCHANGED <<storeFile, store, vault, now, edits, pc, run, mem,
                             vaultTasks, results, writeCalls, fileOps, readOnly>>

InitObsidianSync ==
    /\ Len(applied) < 2
    /\ \E tag \in Tags, tasksPath \in TasksPaths :
          LET options == [tag |-> tag, tasksPath |-> tasksPath]
          IN  /\ record' = options
              /\ IF InvalidVault(content)
                 THEN outcome' = "threw" /\ UNCHANGED content
                 ELSE /\ outcome' = "returned"
                      /\ content' = initObsidianSync(content, options, now)
    /\ applied' = Append(applied, "init")
    /\ UNCHANGED idx
    /\ CallUnchanged

NextInit ==
    \/ InitObsidianSync
    \/ Tick

SpecInit == InitInit /\ [][NextInit]_vars

(***************************************************************************)
(* SpecScan: the two extractors tried on a vault path.  content holds what *)
(* the path is and the markdown files under it, each too large or not,     *)
(* readable or not.                                                        *)
(***************************************************************************)
\* '**/Templates/**', '**/Archive/**', '**/.obsidian/**', '**/Tasks/**'
DefaultExcludes == {"Templates", "Archive", ".obsidian", "Tasks"}

Note0(big, unreadable) == [big |-> big, unreadable |-> unreadable]

Tree(root, notes) == [root |-> root, notes |-> notes]

\* glob.sync(pattern, {cwd, ignore}): the markdown files under a directory
\* that no ignore pattern covers; nothing under a path that cannot be listed
GlobSync(tree, ignore) ==
    IF tree.root = "dir" THEN {p \in DOMAIN tree.notes : p.dir \notin ignore} ELSE {}

\* the files the loop of scanObsidianNotes gets through: statSync and
\* readFileSync succeed and the size is within maxFileSize
Analyzed(tree) ==
    {p \in GlobSync(tree, DefaultExcludes) :
        ~tree.notes[p].big /\ ~tree.notes[p].unreadable}

\* mutant: a file beyond maxFileSize is counted like any other
scanObsidianNotesCountingLarge(tree) ==
    IF tree.root = "missing" THEN [threw |-> TRUE, totalFiles |-> 0]
    ELSE [threw |-> FALSE,
          totalFiles |-> Cardinality({p \in GlobSync(tree, DefaultExcludes) :
                                         ~tree.notes[p].unreadable})]

\* scanObsidianNotes(vaultPath): it throws, or returns with totalFiles
scanObsidianNotes(tree) ==
    IF tree.root = "missing" THEN [threw |-> TRUE, totalFiles |-> 0]
    ELSE [threw |-> FALSE, totalFiles |-> Cardinality(Analyzed(tree))]

\* lines 318-331 of parseObsidianNotes: the scan and the checks of its
\* result (content always holds the summary, so only totalFiles decides)
ScanForParse(tree) ==
    LET vaultContent == scanObsidianNotes(tree)
    IN  [threw |-> vaultContent.threw \/ vaultContent.totalFiles = 0,
         totalFiles |-> vaultContent.totalFiles]

\* extractTasksFromVault(vaultPath): glob.sync without ignore, every read in
\* a try/catch that logs a warning; it returns the tasks of the files it
\* could read
ExtractForSync(tree) ==
    [threw |-> FALSE,
     totalFiles |-> Cardinality({p \in GlobSync(tree, {}) : ~tree.notes[p].unreadable})]

Outcome(call) == IF call.threw THEN "threw" ELSE "returned"

ScanPaths == {F1, F2, TaskFile(2, "B")}

Trees ==
    {Tree(root, <<>>) : root \in {"missing", "file"}}
    \cup UNION {{Tree("dir", notes) : notes \in [paths -> {Note0(b, u) : b, u \in BOOLEAN}]} :
                  paths \in SUBSET ScanPaths}

InitScan ==
    /\ content \in Trees
    /\ record = <<>>
    /\ applied = <<>>
    /\ storeFile = "ok"
    /\ store = EmptyDocument
    /\ vault = <<>>
    /\ readOnly = {}
    /\ now = 1
    /\ edits = 0
    /\ pc = "idle"
    /\ run = NoRun
    /\ mem = <<>>
    /\ idx = 0
    /\ vaultTasks = <<>>
    /\ results = ZeroResults
    /\ outcome = "none"
    /\ writeCalls = 0
    /\ fileOps = 0

\* the extraction parseObsidianNotes starts with
ApplyScan ==
    /\ applied = <<>>
    /\ outcome' = Outcome(ScanForParse(content))
    /\ idx' = ScanForParse(content).totalFiles
    /\ applied' = <<"scan">>
    /\ UNCHANGED <<content, record>>
    /\ CallUnchanged

\* the extraction the synchronization functions start with
ApplyExtractForSync ==
    /\ applied = <<>>
    /\ outcome' = Outcome(ExtractForSync(content))
    /\ idx' = ExtractForSync(content).totalFiles
    /\ applied' = <<"extract">>
    /\ UNCHANGED <<content, record>>
    /\ CallUnchanged

NextScan ==
    \/ ApplyScan
    \/ ApplyExtractForSync

SpecScan == InitScan /\ [][NextScan]_vars

(***************************************************************************)
(* SpecFatal: the passes on a store that may be missing, unparsable or     *)
(* impossible to write.                                                    *)
(***************************************************************************)
InitFatal ==
    /\ \/ storeFile = "ok" /\ store \in InitDocuments
       \/ storeFile \in {"missing", "corrupt"} /\ store = EmptyDocument
    /\ vault \in InitVaults
    /\ readOnly \in {{}, {StorePath}}
    /\ now = 1
    /\ edits = 0
    /\ pc = "idle"
    /\ run = NoRun
    /\ mem = <<>>
    /\ idx = 0
    /\ vaultTasks = <<>>
    /\ results = ZeroResults
    /\ outcome = "none"
    /\ writeCalls = 0
    /\ fileOps = 0
    /\ content = <<>>
    /\ record = <<>>
    /\ applied = <<>>

ParseObsidianNotesAndSync == ParseObsidianNotesCall(SyncTags, BOOLEAN)

NextFatal ==
    \/ SyncWithObsidianStart
    \/ SyncWithObsidianTo
    \/ SyncWithObsidianFrom
    \/ SyncWithObsidianSave
    \/ SyncTasksFromObsidianStart
    \/ SyncTasksFromObsidianRecord
    \/ SyncTasksFromObsidianSave
    \/ ParseObsidianNotesAndSync
    \/ Return

SpecFatal == InitFatal /\ [][NextFatal]_vars

(***************************************************************************)
(* SpecRound: syncTasksToObsidian and syncTasksFromObsidian in turn, on a  *)
(* vault that nobody edits.  The notes and the records start in step: each *)
(* checkbox line has its record, made from it by an earlier pass.          *)
(***************************************************************************)
\* records a pass may reach when every generated file is read back
MaxRound == 6

RoundA == Task(1, "A", "pending", "A", "medium", "", <<>>, F1, "synced", <<1>>)

RoundB == Task(2, "B", "done", "B", "medium", "", <<>>, F1, "synced", <<1>>)

RoundLists == { <<RoundA>>, <<RoundA, RoundB>> }

\* the note the records of the list were made from
RoundNote(m) ==
    [p \in {F1} |->
        File([i \in 1..Len(m) |-> Line(m[i].title, m[i].status = "done")], 0)]

InitRound ==
    /\ storeFile = "ok"
    /\ \E m \in RoundLists :
          /\ store = [master |-> TasksPartition(m),
                      other |-> TasksPartition(<<OtherTask>>)]
          /\ vault \in {<<>>, RoundNote(m)}
    /\ readOnly = {}
    /\ now = 1
    /\ edits = 0
    /\ pc = "idle"
    /\ run = NoRun
    /\ mem = <<>>
    /\ idx = 0
    /\ vaultTasks = <<>>
    /\ results = ZeroResults
    /\ outcome = "none"
    /\ writeCalls = 0
    /\ fileOps = 0
    /\ content = <<>>
    /\ record = <<>>
    /\ applied = <<>>

SyncTasksFromObsidianRound == SyncTasksFromObsidianUpTo(SyncTags, MaxRound)

NextRound ==
    \/ SyncTasksToObsidian
    \/ SyncTasksFromObsidianRound
    \/ SyncTasksFromObsidianRecord
    \/ SyncTasksFromObsidianSave
    \/ Return

SpecRound == InitRound /\ [][NextRound]_vars

(***************************************************************************)
(* SpecClient: the plugin's TaskMasterClient (connect, disconnect,         *)
(* ensureConnected) and the server processes it spawns.  The operations of *)
(* the client are asynchronous functions on one thread: each runs without  *)
(* interruption up to its await, and the others run while it waits.        *)
(***************************************************************************)
\* child processes a client spawns in one behaviour
MaxChildren == 3

\* client operations (listTasks, getTask, ...) that may be pending together
Operations == {1, 2}

\* a spawned server: live, killed (signalled by process.kill(), its exit
\* still to come) or exited; closed when the Client made for it was closed;
\* watched once the 'error' and 'exit' handlers are registered on it
Child(state, closed, watched) ==
    [state |-> state, closed |-> closed, watched |-> watched]

\* lines 28-32: client, transport and process are null, isConnected false
Disconnected == [client |-> 0, transport |-> 0, process |-> 0, isConnected |-> FALSE]

Waiting(op) == [pc |-> "idle", child |-> 0]

LiveChildren == {p \in 1..Len(content) : content[p].state = "live"}

\* what the client code leaves alone
PluginUnchanged == UNCHANGED <<storeFile, store, vault, now, edits, pc, run, mem,
                               idx, vaultTasks, results, outcome, writeCalls,
                               fileOps, readOnly>>

InitClient ==
    /\ content = <<>>
    /\ record = Disconnected
    /\ applied = [op \in Operations |-> Waiting(op)]
    /\ storeFile = "ok"
    /\ store = EmptyDocument
    /\ vault = <<>>
    /\ readOnly = {}
    /\ now = 1
    /\ edits = 0
    /\ pc = "idle"
    /\ run = NoRun
    /\ mem = <<>>
    /\ idx = 0
    /\ vaultTasks = <<>>
    /\ results = ZeroResults
    /\ outcome = "none"
    /\ writeCalls = 0
    /\ fileOps = 0

\* lines 92-108, disconnect(): close the current client, kill the current
\* process, forget both
disconnect(children, object) ==
    [p \in DOMAIN children |->
        [children[p] EXCEPT
            !.closed = IF p = object.client THEN TRUE ELSE @,
            !.state = IF p = object.process /\ @ = "live" THEN "killed" ELSE @]]

\* lines 110-114 and 38-70: an operation calls ensureConnected; when
\* isConnected is false, connect spawns a server, stores process, transport
\* and client, and waits for client.connect(transport)
EnsureConnected(op) ==
    /\ applied[op].pc = "idle"
    /\ IF record.isConnected
       THEN /\ applied' = [applied EXCEPT ![op].pc = "ready"]
            /\ UNCHANGED <<content, record>>
       ELSE LET child == Len(content) + 1
            IN  /\ child <= MaxChildren
                /\ content' = Append(content, Child("live", FALSE, FALSE))
                /\ record' = [client |-> child, transport |-> child,
                              process |-> child, isConnected |-> FALSE]
                /\ applied' = [applied EXCEPT ![op] = [pc |-> "connecting",
                                                       child |-> child]]
    /\ PluginUnchanged

\* lines 70-83: the handshake succeeded; isConnected becomes true and the
\* handlers are registered on this.process as it is now.  When a disconnect
\* has set it to null meanwhile, the registration throws and the catch
\* block runs (lines 85-89)
ConnectResolves(op) ==
    /\ applied[op].pc = "connecting"
    /\ content[applied[op].child].state = "live"
    /\ ~content[applied[op].child].closed
    /\ IF record.process = 0
       THEN /\ content' = disconnect(content, record)
            /\ record' = Disconnected
            /\ applied' = [applied EXCEPT ![op] = Waiting(op)]
       ELSE /\ content' = [content EXCEPT ![record.process].watched = TRUE]
            /\ record' = [record EXCEPT !.isConnected = TRUE]
            /\ applied' = [applied EXCEPT ![op].pc = "ready"]
    /\ PluginUnchanged

\* lines 85-89: client.connect rejects because the server is gone or the
\* client was closed; disconnect() and rethrow
ConnectRejects(op) ==
    /\ applied[op].pc = "connecting"
    /\ \/ content[applied[op].child].state # "live"
       \/ content[applied[op].child].closed
    /\ content' = disconnect(content, record)
    /\ record' = Disconnected
    /\ applied' = [applied EXCEPT ![op] = Waiting(op)]
    /\ PluginUnchanged

\* the operation makes its tool call and returns
Finish(op) ==
    /\ applied[op].pc = "ready"
    /\ applied' = [applied EXCEPT ![op] = Waiting(op)]
    /\ UNCHANGED <<content, record>>
    /\ PluginUnchanged

\* a server process ends, by itself or after the kill; lines 79-82: the
\* 'exit' handler, when registered on it, sets isConnected to false
ProcessExit(p) ==
    /\ content[p].state \in {"live", "killed"}
    /\ content' = [content EXCEPT ![p].state = "exited"]
    /\ record' = IF content[p].watched THEN [record EXCEPT !.isConnected = FALSE]
                 ELSE record
    /\ UNCHANGED applied
    /\ PluginUnchanged

\* the plugin calls disconnect() (unload, change of settings)
Disconnect ==
    /\ record # Disconnected
    /\ content' = disconnect(content, record)
    /\ record' = Disconnected
    /\ UNCHANGED applied
    /\ PluginUnchanged

Operation == \E op \in Operations : EnsureConnected(op)

Handshake == \E op \in Operations : ConnectResolves(op)

HandshakeFails == \E op \in Operations : ConnectRejects(op)

Completion == \E op \in Operations : Finish(op)

Exit == \E p \in 1..Len(content) : ProcessExit(p)

NextClient ==
    \/ Operation
    \/ Handshake
    \/ HandshakeFails
    \/ Completion
    \/ Exit
    \/ Disconnect

SpecClient == InitClient /\ [][NextClient]_vars

(***************************************************************************)
(* Properties.                                                             *)
(***************************************************************************)
\* a from-obsidian pass that changes records is looping over the extracted ones
InFromLoop == pc = "from" /\ ~run.dryRun

\* the tasks of the partition as the running pass read them
PartitionTasks(tag) == LET data == readJSON(tag) IN IF data = <<>> THEN <<>> ELSE data[1]

\* the record the from-obsidian loop of the running function matches with vaultTask
MatchedIndex(vaultTask) ==
    IF run.fn = "syncWithObsidian" THEN FindBySourceAndTitle(mem, vaultTask)
    ELSE FindByTitleOrSource(mem, vaultTask)

\* a step of the from-obsidian loop is about to handle Head(vaultTasks)
AtRecord == pc = "from" /\ vaultTasks # <<>>

\* C1: with M the largest id of the partition before the pass (0 when it is
\* empty), the records a from-obsidian pass has created so far are the last
\* ones of the list and carry the ids M+1, M+2, ... in creation order.
C1_IdMonotonic ==
    InFromLoop =>
        LET old == PartitionTasks(run.tag)
            M == MaxId(old)
        IN  /\ Len(mem) = Len(old) + results.created
            /\ \A k \in 1..results.created : mem[Len(old) + k].id = M + k

\* C1 witness: a pass over a partition whose largest id is 2 has created two records
C1_Witness ==
    /\ InFromLoop
    /\ vaultTasks = <<>>
    /\ results.created = 2
    /\ MaxId(PartitionTasks(run.tag)) = 2

\* C2: in a bidirectional run the to-obsidian block writes no vault file before
\* the from-obsidian block has saved the store.
C2_FromBeforeTo ==
    (run.direction = "bidirectional" /\ fileOps > 0) => writeCalls > 0

\* C3: a step that writes tasks.json for one tag leaves every other partition
\* of the document as it was.
C3_PartitionIsolation ==
    [][\A b \in Tags : b # run'.tag => Document'[b] = Document[b]]_vars

\* C3 witness: parseObsidianNotes has written the master tag of a document
\* whose other partition holds a task
C3_Witness ==
    /\ pc = "done"
    /\ run.fn = "parseObsidianNotes"
    /\ run.tag = "master"
    /\ writeCalls = 1
    /\ Document["other"].kind = "tasks"
    /\ Len(Document["other"].tasks) > 0

\* C4: an extracted record that no existing record equals in both sourceFile
\* and title is created as a new task.
C4_NaturalKeyMatch ==
    [][(AtRecord /\ FindBySourceAndTitle(mem, Head(vaultTasks)) = 0)
          => results'.created = results.created + 1]_vars

\* C5: a from-obsidian pass that created and updated nothing has not written
\* the store.
C5_NoWriteWithoutChange ==
    (/\ pc = "done"
     /\ outcome = "returned"
     /\ run.direction = "from-obsidian"
     /\ results.created = 0
     /\ results.updated = 0)
        => writeCalls = 0

\* C6: a step of a from-obsidian pass counts or marks a conflict only for a
\* record that has a lastSyncAt, older than the modification evidence of the
\* incoming record, and that differs from it in title, status or description.
C6_ConflictOnlyIf ==
    [][(AtRecord /\ (results'.conflicts # results.conflicts \/ mem' # mem)) =>
          LET vt == Head(vaultTasks)
              justified(t) ==
                  /\ t.lastSyncAt # <<>>
                  /\ VaultTaskTime(vt) > t.lastSyncAt[1]
                  /\ \/ t.title # vt.title
                     \/ t.status # vt.status
                     \/ t.description # vt.description
          IN  /\ results'.conflicts # results.conflicts
                    => \E i \in 1..Len(mem) : justified(mem[i])
              /\ \A i \in 1..Len(mem) :
                    (mem'[i].syncStatus = "conflict" /\ mem'[i] # mem[i])
                        => justified(mem[i])]_vars

\* C6 witness: the pass has marked a record whose lastSyncAt lies before the epoch
C6_Witness ==
    /\ InFromLoop
    /\ results.conflicts = 1
    /\ \E i \in 1..Len(mem) :
          /\ mem[i].syncStatus = "conflict"
          /\ mem[i].lastSyncAt = <<-1>>
          /\ PartitionTasks(run.tag)[i].syncStatus = "synced"

\* C7: a record whose lastSyncAt is older than the last edit of its vault file
\* and whose status differs from the checkbox is counted as a conflict and is
\* not updated.
C7_EditedFileConflicts ==
    [][(/\ AtRecord
        /\ FindBySourceAndTitle(mem, Head(vaultTasks)) # 0
        /\ LET vt == Head(vaultTasks)
               t == mem[FindBySourceAndTitle(mem, vt)]
           IN  /\ t.lastSyncAt # <<>>
               /\ vault[vt.sourceFile].mtime > t.lastSyncAt[1]
               /\ t.status # vt.status)
          => /\ results'.conflicts = results.conflicts + 1
             /\ results'.updated = results.updated]_vars

\* C8: the step that finds a conflict adds one to the conflict counter only,
\* and changes nothing of the list but the syncStatus of the matched record.
C8_ConflictFrame ==
    [][(/\ AtRecord
        /\ MatchedIndex(Head(vaultTasks)) # 0
        /\ hasConflict(mem[MatchedIndex(Head(vaultTasks))], Head(vaultTasks)))
          => LET i == MatchedIndex(Head(vaultTasks))
             IN  /\ results' = [results EXCEPT !.conflicts = @ + 1]
                 /\ mem' = IF run.dryRun THEN mem
                           ELSE [mem EXCEPT ![i].syncStatus = "conflict"]]_vars

\* C8 witness: a conflict was counted for a record that kept its old status,
\* description and priority although the vault says otherwise
C8_Witness ==
    /\ InFromLoop
    /\ results.conflicts = 1
    /\ \E i \in 1..Len(mem) :
          /\ mem[i].syncStatus = "conflict"
          /\ mem[i].lastSyncAt = <<-1>>
          /\ mem[i].priority = "high"
          /\ mem[i].description = "d"

\* C9: a stored record whose syncStatus is conflict is left as it is by every
\* step of every pass.
C9_ConflictSticks ==
    [][\A i \in 1..Len(PartitionTasks("master")) :
          PartitionTasks("master")[i].syncStatus = "conflict"
              => /\ Len(PartitionTasks("master")') >= i
                 /\ PartitionTasks("master")'[i] = PartitionTasks("master")[i]]_vars

\* C10: the step that matches a record and finds no conflict keeps the id of
\* the record, gives it the status of the checkbox line (done when checked,
\* pending otherwise), syncStatus synced and the current time as lastSyncAt,
\* and adds one to the updated counter only.
C10_UpdateMerges ==
    [][(/\ AtRecord
        /\ ~run.dryRun
        /\ MatchedIndex(Head(vaultTasks)) # 0
        /\ ~hasConflict(mem[MatchedIndex(Head(vaultTasks))], Head(vaultTasks)))
          => LET vt == Head(vaultTasks)
                 i == MatchedIndex(vt)
             IN  /\ Len(mem') = Len(mem)
                 /\ mem'[i].id = mem[i].id
                 /\ \E k \in 1..Len(vault[vt.sourceFile].lines) :
                       LET l == vault[vt.sourceFile].lines[k]
                       IN  /\ l.title = vt.title
                           /\ mem'[i].status = IF l.checked THEN "done" ELSE "pending"
                 /\ mem'[i].syncStatus = "synced"
                 /\ mem'[i].lastSyncAt = <<now>>
                 /\ \A j \in 1..Len(mem) : j # i => mem'[j] = mem[j]
                 /\ results' = [results EXCEPT !.updated = @ + 1]]_vars

\* C10 witness: a record stamped at time 1 was updated at time 2 from a ticked box
C10_Witness ==
    /\ InFromLoop
    /\ now = 2
    /\ results.updated = 1
    /\ \E i \in 1..Len(mem) :
          /\ mem[i].lastSyncAt = <<2>>
          /\ mem[i].status = "done"
          /\ mem[i].syncStatus = "synced"
          /\ i <= Len(PartitionTasks(run.tag))
          /\ PartitionTasks(run.tag)[i].id = mem[i].id
          /\ PartitionTasks(run.tag)[i].status = "pending"

\* the ids of a list of records
Ids(tasks) == {tasks[i].id : i \in 1..Len(tasks)}

\* C11: no step of a to-obsidian, from-obsidian or bidirectional pass removes
\* a record from the stored partition: every id it held before the step it
\* holds after it, whether or not the source file of the record still exists.
C11_NoRecordRemoved ==
    [][Ids(PartitionTasks("master")) \subseteq Ids(PartitionTasks("master")')]_vars

\* C11 witness: a from-obsidian pass has saved the partition, with a new record,
\* after the note of record 2 was deleted from the vault, and record 2 is there
C11_Witness ==
    /\ pc = "done"
    /\ run.direction = "from-obsidian"
    /\ writeCalls = 1
    /\ results.created > 0
    /\ \E i \in 1..Len(PartitionTasks("master")) :
          LET t == PartitionTasks("master")[i]
          IN  /\ t.id = 2
              /\ t.sourceFile # NoFile
              /\ t.sourceFile \notin DOMAIN vault

\* a pass of the named function has returned its results
Returned(fn) == pc = "done" /\ run.fn = fn /\ outcome = "returned"

\* the records of the running pass that carry a sourceFile
Eligible == {i \in 1..Len(mem) : mem[i].sourceFile # NoFile}

\* the ids of tasks, in order, that are in keep
IdsIn(tasks, keep) ==
    LET ids == [i \in 1..Len(tasks) |-> tasks[i].id]
        hit(id) == id \in keep
    IN  SelectSeq(ids, hit)

\* C12 as stated: a to-obsidian pass does no file operation for a record
\* without sourceFile and does not count it, so its file operations and its
\* created, updated and errored counts number at most the records that carry
\* a sourceFile.
C12_SkipsSourceless ==
    run.direction = "to-obsidian" =>
        /\ fileOps <= Cardinality(Eligible)
        /\ results.created + results.updated + Len(results.errors) <= Cardinality(Eligible)

\* C12 amended: the to-obsidian loop of syncWithObsidian leaves the vault and
\* the counters alone at a record without sourceFile, while a
\* syncTasksToObsidian pass that is no dry run handles every record of the
\* partition, whatever its sourceFile: it writes Tasks/task-<id>-<slug>.md
\* and counts the record created or updated, or counts it errored.
C12_SkipsSourcelessInSyncOnly ==
    [][/\ (pc = "to" /\ run.fn = "syncWithObsidian" /\ mem[idx].sourceFile = NoFile)
           => (vault' = vault /\ results' = results /\ fileOps' = fileOps)
       /\ (pc = "idle" /\ pc' = "done" /\ run'.fn = "syncTasksToObsidian"
              /\ ~run'.dryRun /\ outcome' = "returned")
           => /\ results'.created + results'.updated + Len(results'.errors) = Len(mem')
              /\ \A i \in 1..Len(mem') :
                    LET path == TaskFile(mem'[i].id, mem'[i].title)
                    IN  IF path \in readOnly
                        THEN \E k \in 1..Len(results'.errors) :
                                results'.errors[k] = mem'[i].id
                        ELSE /\ path \in DOMAIN vault'
                             /\ vault'[path].lines = generateMarkdownForTask(mem'[i])]_vars

\* C12 witness: a to-obsidian run of syncWithObsidian has gone through a record
\* without sourceFile and a record with one, and counted one update
C12_Witness ==
    /\ Returned("syncWithObsidian")
    /\ run.direction = "to-obsidian"
    /\ Len(mem) = 2
    /\ Cardinality(Eligible) = 1
    /\ results.updated = 1
    /\ fileOps = 1

\* C13: a to-obsidian pass over a readable partition returns and does not
\* throw; its error list holds, in order, the ids of exactly the records whose
\* file could not be written, and every other record was still handled: its
\* file is written and it is counted.
C13_ErrorsRecorded ==
    /\ (pc = "done" /\ run.direction = "to-obsidian" /\ readJSON(run.tag) # <<>>)
          => outcome = "returned"
    /\ (Returned("syncTasksToObsidian") /\ ~run.dryRun) =>
          LET path(t) == TaskFile(t.id, t.title)
          IN  /\ results.errors =
                    IdsIn(mem, {mem[i].id : i \in {j \in 1..Len(mem) : path(mem[j]) \in readOnly}})
              /\ results.created + results.updated = Len(mem) - Len(results.errors)
              /\ \A i \in 1..Len(mem) :
                    path(mem[i]) \notin readOnly
                        => /\ path(mem[i]) \in DOMAIN vault
                           /\ vault[path(mem[i])].lines = generateMarkdownForTask(mem[i])
    /\ (Returned("syncWithObsidian") /\ run.direction = "to-obsidian") =>
          LET path(t) == t.sourceFile
          IN  /\ results.errors =
                    IdsIn(mem, {mem[i].id : i \in {j \in Eligible : path(mem[j]) \in readOnly}})
              /\ results.updated = Cardinality(Eligible) - Len(results.errors)
              /\ \A i \in Eligible :
                    path(mem[i]) \notin readOnly
                        => /\ path(mem[i]) \in DOMAIN vault
                           /\ \E k \in 1..Len(vault[path(mem[i])].lines) :
                                 vault[path(mem[i])].lines[k].title = mem[i].title

\* C13 witness: the file of task 2, the first of three, could not be written;
\* the pass returned with that one error and the files of the other two
C13_Witness ==
    /\ Returned("syncTasksToObsidian")
    /\ Len(mem) = 3
    /\ mem[1].id = 2
    /\ results.errors = <<2>>
    /\ results.created + results.updated = 2

\* C14: no step of a dry run, in either direction, changes a vault file or the
\* store document.
C14_DryRunFrame ==
    [][run'.dryRun => (vault' = vault /\ store' = store /\ storeFile' = storeFile)]_vars

\* C14 witness: a dry run of syncTasksToObsidian has returned over two records
\* of which at least one has no file in the vault
C14_Witness ==
    /\ Returned("syncTasksToObsidian")
    /\ run.dryRun
    /\ Len(mem) >= 2
    /\ \E i \in 1..Len(mem) :
          /\ TaskFile(mem[i].id, mem[i].title) \notin DOMAIN vault
          /\ TaskFile(mem[i].id, mem[i].title) \notin readOnly

\* C15 as stated: a dry run of syncTasksToObsidian returns the created and
\* updated counts a real run returns from the same store and vault.
C15_DryRunCounts ==
    (Returned("syncTasksToObsidian") /\ run.dryRun) =>
        LET real == ToObsidianLoop(vault, mem, ZeroResults, FALSE, readOnly, now).results
        IN  /\ results.created = real.created
            /\ results.updated = real.updated

\* C15 amended: a dry run of syncTasksToObsidian returns created 0 and
\* updated 0 and no error, whatever a real run would create or update.
C15_DryRunCountsNothing ==
    (Returned("syncTasksToObsidian") /\ run.dryRun) => results = ZeroResults

\* C15 witness: a dry run has returned where a real run would create one file
\* and update another
C15_Witness ==
    /\ Returned("syncTasksToObsidian")
    /\ run.dryRun
    /\ LET real == ToObsidianLoop(vault, mem, ZeroResults, FALSE, readOnly, now).results
       IN  real.created >= 1 /\ real.updated >= 1

\* C16: a dry run of syncTasksFromObsidian returns the created, updated and
\* conflict counts a real run returns from the same store and vault.
C16_DryRunFromCounts ==
    (Returned("syncTasksFromObsidian") /\ run.dryRun) =>
        LET real == FromLoop(PartitionTasks(run.tag), ZeroResults,
                             extractTasksFromVault(vault), FALSE, now).results
        IN  /\ results.created = real.created
            /\ results.updated = real.updated
            /\ results.conflicts = real.conflicts

\* C18: a step of a to-obsidian pass keeps every file the vault had, and in
\* each of them changes at most one checkbox line, of which it keeps the title;
\* every other line stays where and as it was.
C18_OtherLinesKept ==
    [][run'.direction = "to-obsidian" =>
          \A f \in DOMAIN vault :
             /\ f \in DOMAIN vault'
             /\ LET old == vault[f].lines
                    new == vault'[f].lines
                IN  /\ Len(new) >= Len(old)
                    /\ \A k \in 1..Len(old) : new[k].title = old[k].title
                    /\ Cardinality({k \in 1..Len(old) : new[k] # old[k]}) <= 1]_vars

\* the checkbox lines of a text, in order
CheckboxLines(text) ==
    LET hit(line) == IsCheckboxLine(line)
    IN  SelectSeq(SplitLines(text), hit)

\* C17: updating a text a second time with the same record gives the text the
\* first update gave, whether the first update rewrote a line or appended one.
C17_UpdateIdempotent ==
    [][(applied = <<"update">> /\ applied' = <<"update", "update">>)
          => content' = content]_vars

\* C19: when the text has a checkbox line whose title is the title of the
\* record but for letter case, the update appends no checkbox line and leaves
\* such a line with the mark of the record (x exactly when status is done).
C19_CaseInsensitiveMatch ==
    [][(/\ applied = <<>>
        /\ applied' = <<"update">>
        /\ \E k \in 1..Len(CheckboxLines(content)) :
              Lower(TextTask(CheckboxLines(content)[k]).title) = Lower(record.title))
          => /\ Len(CheckboxLines(content')) = Len(CheckboxLines(content))
             /\ \E k \in 1..Len(CheckboxLines(content)) :
                   /\ Lower(TextTask(CheckboxLines(content)[k]).title) = Lower(record.title)
                   /\ CheckboxLines(content')[k][4] = Mark(record)]_vars

\* C20: the tasks extracted from the rendered text of a record include one
\* with the title of the record, done exactly when the record is done.
C20_RenderRoundTrip ==
    applied = <<"render", "extract">> =>
        \E i \in 1..Len(vaultTasks) :
           /\ vaultTasks[i].title = record.title
           /\ (vaultTasks[i].status = "done") <=> (record.status = "done")

(***************************************************************************)
(* Identifier formatting and token resolution (SpecIds).                   *)
(***************************************************************************)
\* a number, a dotted subtask id or a bracket token
ValidIdentifier(id) ==
    \/ id.type = "number"
    \/ id.type = "string" /\ Includes(id.s, <<".">>)
    \/ IsLink(id)

\* C21: for every valid identifier x (a number, a dotted subtask id or a
\* bracket token), formatting the result of formatting x returns the same
\* value as formatting x once: a second formatTaskId changes nothing.
C21_FormatIdempotent ==
    [][(applied = <<"format">> /\ applied' = <<"format", "format">>
        /\ ValidIdentifier(record.identifier))
       => content' = content]_vars

C21_Witness ==
    /\ applied = <<"format", "format">>
    /\ record.identifier = Num(12)
    /\ content = Str(<<"1", "2">>)

\* the token of the call is well formed: brackets around a text that is not
\* blank
WellFormed == IsLink(record.identifier) /\ LinkText(record.identifier) # <<>>

Tasks == record.tasks

\* the positions of the top-level tasks, and of the subtasks as <<parent,
\* subtask>>, whose title equals or contains the text of the token, letter
\* case aside
ExactTop == {i \in 1..Len(Tasks) : ExactTitle(Tasks[i], LinkText(record.identifier))}

ExactSub ==
    {ij \in (1..Len(Tasks)) \X (1..2) :
        /\ ij[2] <= Len(Tasks[ij[1]].subtasks)
        /\ ExactTitle(Tasks[ij[1]].subtasks[ij[2]], LinkText(record.identifier))}

PartialTop == {i \in 1..Len(Tasks) : PartialTitle(Tasks[i], LinkText(record.identifier))}

PartialSub ==
    {ij \in (1..Len(Tasks)) \X (1..2) :
        /\ ij[2] <= Len(Tasks[ij[1]].subtasks)
        /\ PartialTitle(Tasks[ij[1]].subtasks[ij[2]], LinkText(record.identifier))}

\* content is the id of the earliest task of hits
EarliestTop(hits) ==
    \E i \in hits : (\A k \in hits : i <= k) /\ content = Num(Tasks[i].id)

\* content is the dotted id of the earliest subtask of hits: the first
\* parent that has one, and its first one
EarliestSub(hits) ==
    \E ij \in hits :
        /\ \A kl \in hits : ij[1] < kl[1] \/ (ij[1] = kl[1] /\ ij[2] <= kl[2])
        /\ content = DottedId(Tasks[ij[1]].id, Tasks[ij[1]].subtasks[ij[2]].id)

\* C22: resolving a token returns the first match in the fixed order exact
\* title among top-level tasks, exact title among subtasks (as
\* parentId.subId), substring among top-level tasks, substring among
\* subtasks; within one step the earliest task in store order wins.
C22_ResolutionOrder ==
    (applied = <<"resolve">> /\ WellFormed) =>
        /\ ExactTop # {} => EarliestTop(ExactTop)
        /\ (ExactTop = {} /\ ExactSub # {}) => EarliestSub(ExactSub)
        /\ (ExactTop = {} /\ ExactSub = {} /\ PartialTop # {}) => EarliestTop(PartialTop)
        /\ (ExactTop = {} /\ ExactSub = {} /\ PartialTop = {} /\ PartialSub # {})
              => EarliestSub(PartialSub)

\* an exact subtask match wins over a substring match of an earlier
\* top-level task
C22_Witness ==
    /\ applied = <<"resolve">>
    /\ WellFormed
    /\ ExactTop = {}
    /\ \E ij \in ExactSub : \E k \in PartialTop : k < ij[1]
    /\ content.type = "string"

\* the ids a resolution can name: those of the tasks and of their subtasks
KnownIds ==
    {Num(Tasks[i].id) : i \in 1..Len(Tasks)}
    \cup {DottedId(Tasks[ij[1]].id, Tasks[ij[1]].subtasks[ij[2]].id) :
            ij \in {kl \in (1..Len(Tasks)) \X (1..2) : kl[2] <= Len(Tasks[kl[1]].subtasks)}}

NothingMatches == WellFormed /\ PartialTop = {} /\ PartialSub = {}

ParseStep == pc = "idle" /\ pc' = "done" /\ run'.fn = "parseObsidianNotes"

\* the tasks of the target partition before the call, and their ids
Before == PartitionTasks(run'.tag)

BeforeIds == {Before[i].id : i \in 1..Len(Before)}

\* the provisional ids of the batch, and of the drafts ahead of draft i
Provisional == {run'.drafts[i].id : i \in 1..Len(run'.drafts)}

ProvisionalAhead(i) == {run'.drafts[k].id : k \in 1..(i - 1)}

\* the record created for draft i: the new ones are the last of the list
Created(i) == mem'[Len(mem') - Len(run'.drafts) + i]

\* the call is neither refused for want of force or append nor left without
\* a note to read
Admitted ==
    /\ Before = <<>> \/ run'.force \/ run'.append
    /\ ScannedFiles(vault) # {}

\* the positions in the dependencies of draft i whose provisional id is
\* that of a draft or the id of a task of the partition
Resolvable(i) ==
    {k \in 1..Len(run'.drafts[i].dependencies) :
        run'.drafts[i].dependencies[k] \in Provisional \cup BeforeIds}

Dangling(i) == (1..Len(run'.drafts[i].dependencies)) \ Resolvable(i)

\* C24: when a generated task's dependency refers to a provisional id that
\* belongs to no task of the batch and to no task of the existing store,
\* the parse still succeeds and that edge is absent from the remapped list:
\* the task has no more edges than it has resolvable dependencies.
C24_DanglingEdgeDropped ==
    [][(ParseStep /\ Admitted /\ \E i \in 1..Len(run'.drafts) : Dangling(i) # {})
       => /\ outcome' = "returned"
          /\ \A i \in 1..Len(run'.drafts) :
                Len(Created(i).dependencies) <= Cardinality(Resolvable(i))]_vars

\* the draft of provisional id 20 named 10, 2 and 1; only 10 is a draft
C24_Witness ==
    /\ Returned("parseObsidianNotes")
    /\ Len(run.drafts) = 2
    /\ Len(mem) = 2
    /\ mem[2].dependencies = <<1>>

\* C25: a dependency edge is dropped during remapping only if its target
\* resolves neither to a task earlier in the same batch nor to a task
\* already in the partition: an edge to an earlier draft is kept under the
\* draft's new id, an edge to a pre-existing task is kept under its id.
C25_ExistingEdgeKept ==
    [][(ParseStep /\ outcome' = "returned")
       => \A i \in 1..Len(run'.drafts) :
             \A k \in 1..Len(run'.drafts[i].dependencies) :
                LET d == run'.drafts[i].dependencies[k]
                    deps == Created(i).dependencies
                    edges == {deps[j] : j \in 1..Len(deps)}
                IN  /\ d \in ProvisionalAhead(i) =>
                          \E n \in 1..(i - 1) :
                             run'.drafts[n].id = d /\ Created(n).id \in edges
                    /\ (d \in BeforeIds /\ d \notin Provisional /\ run'.append) =>
                          d \in edges]_vars

\* C26: after parsing, every dependency of every newly created task refers
\* to an id strictly smaller than the task's own id: no task depends on
\* itself or on a task created after it.
C26_NoForwardEdges ==
    Returned("parseObsidianNotes") =>
        \A i \in (Len(mem) - Len(run.drafts) + 1)..Len(mem) :
            \A k \in 1..Len(mem[i].dependencies) : mem[i].dependencies[k] < mem[i].id

\* the first draft named the second one and the second the first: only the
\* backward edge is left
C26_Witness ==
    /\ Returned("parseObsidianNotes")
    /\ Len(run.drafts) = 2
    /\ mem[Len(mem) - 1].dependencies = <<>>
    /\ mem[Len(mem)].dependencies = <<mem[Len(mem) - 1].id>>

\* C27: when notes are parsed with force into a partition that already
\* holds tasks, the previous tasks are replaced and the new tasks are
\* numbered 1, 2, ..., N in generation order, with their dependencies
\* remapped to those numbers.
C27_ForceRenumbers ==
    [][(ParseStep /\ outcome' = "returned" /\ run'.force /\ ~run'.append
        /\ Before # <<>>)
       => /\ store'[run'.tag].tasks = mem'
          /\ Len(mem') = Len(run'.drafts)
          /\ \A i \in 1..Len(mem') :
                /\ mem'[i].id = i
                /\ \A k \in 1..Len(mem'[i].dependencies) :
                      mem'[i].dependencies[k] \in 1..(i - 1)]_vars

\* C28: parsing notes into a partition that already contains tasks, with
\* neither force nor append set, raises an error and leaves the store file
\* unchanged.
C28_OverwriteRefused ==
    [][(ParseStep /\ Before # <<>> /\ ~run'.force /\ ~run'.append)
       => /\ outcome' = "threw"
          /\ store' = store
          /\ storeFile' = storeFile
          /\ writeCalls' = 0]_vars

C28_Witness ==
    /\ pc = "done"
    /\ run.fn = "parseObsidianNotes"
    /\ ~run.force
    /\ ~run.append
    /\ outcome = "threw"
    /\ PartitionTasks(run.tag) # <<>>
    /\ ScannedFiles(vault) # {}

(***************************************************************************)
(* Vault initialization (SpecInit) and the extractors' failures            *)
(* (SpecScan).                                                             *)
(***************************************************************************)
\* C29: running vault initialization when the engine's instructions file
\* and its configuration file already exist leaves the content of both
\* files unchanged.
C29_InitKeepsFiles ==
    [][(Len(applied') = Len(applied) + 1 /\ applied'[Len(applied')] = "init"
        /\ content.root = "dir" /\ content.readme # <<>> /\ content.config # <<>>)
       => /\ content'.readme = content.readme
          /\ content'.config = content.config]_vars

\* the markdown files of the vault the extractors look for: for the scan
\* of the parse those outside the excluded directories, for the
\* synchronization all of them
Matching == IF applied = <<"scan">> THEN GlobSync(content, DefaultExcludes)
            ELSE GlobSync(content, {})

\* C30: extraction raises when the vault root does not exist, when it is
\* not a directory, or when no matching file is found, and raises in no
\* other case.
C30_RaisesOnlyWhen ==
    applied # <<>> =>
        (outcome = "threw" <=> (content.root # "dir" \/ Matching = {}))

\* C30 as amended: the extraction of the parse raises when the root does
\* not exist and when it gets through no file (the root is no directory, no
\* file matches, or every matching file is too large or unreadable), and in
\* no other case; the extraction of the synchronization never raises.
C30_ParseRaisesSyncNever ==
    /\ applied = <<"scan">> =>
          (outcome = "threw" <=>
              \/ content.root # "dir"
              \/ \A p \in Matching : content.notes[p].big \/ content.notes[p].unreadable)
    /\ applied = <<"extract">> => outcome = "returned"

\* the only note outside the excluded directories is too large
C30_Witness ==
    /\ applied = <<"scan">>
    /\ outcome = "threw"
    /\ content.root = "dir"
    /\ Matching # {}
    /\ \A p \in Matching : content.notes[p].big /\ ~content.notes[p].unreadable

(***************************************************************************)
(* The extraction of a from-text pass and the store it starts from.        *)
(***************************************************************************)
\* C31: files under the Templates, Archive, editor-metadata and Tasks
\* directories are excluded by default from every extraction of the vault,
\* including the extraction done by a from-text pass: no record such a pass
\* works on comes from a file of these directories.
C31_ExcludedByDefault ==
    (pc = "from" /\ run.direction = "from-obsidian") =>
        \A i \in 1..Len(vaultTasks) : vaultTasks[i].sourceFile.dir \notin DefaultExcludes

\* a vault of one note holding one unticked checkbox line
OneNote == DOMAIN vault = {F1} /\ Len(vault[F1].lines) = 1 /\ ~vault[F1].lines[1].checked

\* C32: a from-text pass run against a store that is missing, unparseable
\* or has no data for the target partition treats the partition as empty
\* and proceeds; on a vault of one note with one unticked checkbox line it
\* creates exactly one record, with id 1, status pending and the note as
\* its sourceFile.
C32_EmptyStoreProceeds ==
    [][/\ (pc = "idle" /\ pc' # "idle" /\ run'.direction = "from-obsidian"
           /\ readJSON(run'.tag) = <<>>)
          => outcome' # "threw" /\ mem' = <<>>
       /\ (pc = "from" /\ pc' = "done" /\ run.direction = "from-obsidian"
           /\ ~run.dryRun /\ readJSON(run.tag) = <<>> /\ OneNote)
          => /\ storeFile' = "ok"
             /\ store'[run.tag].kind = "tasks"
             /\ Len(store'[run.tag].tasks) = 1
             /\ store'[run.tag].tasks[1].id = 1
             /\ store'[run.tag].tasks[1].status = "pending"
             /\ store'[run.tag].tasks[1].title = vault[F1].lines[1].title
             /\ store'[run.tag].tasks[1].sourceFile = F1]_vars

(***************************************************************************)
(* A store that cannot be read or written (SpecFatal).                     *)
(***************************************************************************)
\* the step in which a pass ends
PassEnds == pc # "done" /\ pc' = "done"

\* the pass that ends has to write the store
MustWrite ==
    \/ run'.fn = "syncWithObsidian" /\ run'.direction # "to-obsidian"
       /\ readJSON(run'.tag) # <<>>
    \/ run'.fn = "syncTasksFromObsidian" /\ FromSaves(results', run'.dryRun)
    \/ run'.fn = "parseObsidianNotes" /\ Admitted

\* C33: if the canonical store cannot be read or written during a pass, the
\* pass raises to the caller and leaves both the store and the vault files
\* as they were before the pass: a pass that has to write a store that
\* cannot be written ends by throwing, and a pass that ends by throwing
\* has written no vault file and has not changed the store.
C33_NoPartialCommit ==
    [][PassEnds =>
          /\ (MustWrite /\ ~StoreWritable) => outcome' = "threw"
          /\ outcome' = "threw" =>
                /\ fileOps' = 0
                /\ writeCalls' = 0
                /\ store' = store
                /\ storeFile' = storeFile]_vars

\* C34: when both force and append are given for a partition that already
\* holds tasks, force takes precedence: the existing tasks are discarded and
\* only the newly generated tasks are stored.
C34_ForceOverAppend ==
    [][(ParseStep /\ outcome' = "returned" /\ run'.force /\ run'.append
        /\ Before # <<>>)
       => /\ Len(store'[run'.tag].tasks) = Len(run'.drafts)
          /\ \A i \in 1..Len(run'.drafts) :
                store'[run'.tag].tasks[i].title = run'.drafts[i].title]_vars

(***************************************************************************)
(* A to-obsidian pass followed by a from-obsidian pass (SpecRound).        *)
(***************************************************************************)
SameText(v, w) ==
    DOMAIN v = DOMAIN w /\ \A p \in DOMAIN v : v[p].lines = w[p].lines

\* the vault is as syncTasksToObsidian leaves it for the stored partition:
\* the pass has just run, or running it now would change no text
Projected(tag) ==
    SameText(vault, ToObsidianLoop(vault, PartitionTasks(tag), ZeroResults,
                                   FALSE, {}, 0).vault)

StoredTitles(tag) ==
    {PartitionTasks(tag)[i].title : i \in 1..Len(PartitionTasks(tag))}

\* no checkbox line of the vault is new to the partition
TitlesKnown(tag) ==
    \A p \in DOMAIN vault : \A i \in 1..Len(vault[p].lines) :
        vault[p].lines[i].title \in StoredTitles(tag)

\* C35: with no human edit in between, a to-text pass followed by a
\* from-text pass creates no new canonical record: when the from-text pass
\* ends on a vault that the to-text pass has just projected and that holds
\* no line unknown to the partition, it has created nothing and the
\* partition has as many records as before.
C35_RoundTripCreatesNothing ==
    [][(pc = "from" /\ pc' = "done" /\ run.direction = "from-obsidian"
        /\ ~run.dryRun /\ Projected(run.tag) /\ TitlesKnown(run.tag))
       => /\ results.created = 0
          /\ Len(mem) = Len(PartitionTasks(run.tag))]_vars

\* C36: a from-text update without conflict leaves the priority, the
\* dependencies and the details of the canonical record as they were: a
\* checkbox line supplies no value for them.
C36_UpdateKeepsFields ==
    [][(/\ AtRecord
        /\ ~run.dryRun
        /\ MatchedIndex(Head(vaultTasks)) # 0
        /\ ~hasConflict(mem[MatchedIndex(Head(vaultTasks))], Head(vaultTasks)))
          => LET i == MatchedIndex(Head(vaultTasks))
             IN  /\ mem'[i].priority = mem[i].priority
                 /\ mem'[i].dependencies = mem[i].dependencies
                 /\ mem'[i].details = mem[i].details]_vars

\* C37: after a from-text pass that is not a dry run and reports no
\* conflict and no error, every extracted record has a canonical record with
\* the same sourceFile and the same title in the target partition, also
\* when one file holds several checkbox lines.
C37_EveryLineHasRecord ==
    [][(pc = "from" /\ pc' = "done" /\ ~run.dryRun /\ outcome' = "returned"
        /\ results.conflicts = 0 /\ results.errors = <<>>)
       => \A k \in 1..Len(extractTasksFromVault(vault)) :
             \E i \in 1..Len(PartitionTasks(run.tag)') :
                /\ PartitionTasks(run.tag)'[i].sourceFile
                      = extractTasksFromVault(vault)[k].sourceFile
                /\ PartitionTasks(run.tag)'[i].title
                      = extractTasksFromVault(vault)[k].title]_vars

(***************************************************************************)
(* The plugin client and its server processes (SpecClient).                *)
(***************************************************************************)
\* C38: a plugin client has at most one live server child process at any
\* time, also when several operations are started together while it is
\* disconnected and when it reconnects after an exit of the server.
C38_OneLiveChild == Cardinality(LiveChildren) <= 1

====
